---- MODULE Spec2Model ----
(***************************************************************************)
(* Timer and store engine of the Kivy task tracker (v1.3,                  *)
(* src/unnamed/part_000).  One state machine: the wall clock, the current  *)
(* date, the listed TaskWidgets, the summary labels and the backing file   *)
(* tasks_data.json.  Every handler is one action, its load-modify-save     *)
(* cycle and its closing update_summary included.                          *)
(*                                                                         *)
(* Representation.  Text (task names, descriptions, notes, dictionary      *)
(* keys) is a sequence of short strings.  A Python object is a tagged      *)
(* record (PyDict / PyStr / PyInt); a dict keeps insertion order as a      *)
(* sequence of items [k, v].  The file holds JSON text, modelled by its    *)
(* parse tree (JObject / JString / JNumber) or by JInvalid for text that   *)
(* does not parse.  Time is counted in clock ticks, TicksPerSecond ticks   *)
(* to the second, so that int() truncation of a timedelta is visible.      *)
(*                                                                         *)
(* Disk faults.  A handler that touches the disk takes the outcome io of   *)
(* its disk operations: io.write is how save_data's write ends, io.rename  *)
(* whether safe_load_data's os.rename succeeds, io.csv how the CSV write   *)
(* ends.  error.log is append-only and never read: the model keeps the     *)
(* number of entries the last step appended, and assumes log_error itself  *)
(* succeeds.                                                               *)
(***************************************************************************)
EXTENDS Integers, Sequences, FiniteSets, TLC

VARIABLES
    now,            \* datetime.now(): the wall clock, in ticks
    current_date,   \* TaskApp.current_date, as a day number
    widgets,        \* TaskApp.task_list_layout.children: the listed TaskWidgets, as added
    running_label,  \* TaskApp.running_label ("Running: n")
    total_label,    \* TaskApp.total_label (format_seconds of the day's live total)
    file,           \* tasks_data.json on disk
    backups,        \* the tasks_data.json.backup.<timestamp> files on disk
    csv_file,       \* tasks_aggregated.csv on disk
    logged,         \* entries the last step appended to error.log
    signal,         \* the popup the last step opened for the user ("none" if none)
    saved,          \* whether the last step called save_data
    last_op,        \* the handler the last step ran
    pc,             \* position in the a/b session scenario ("free" outside it)
    wait_a,         \* the scenario's first waiting time, in seconds
    wait_b,         \* the scenario's second waiting time, in seconds
    waited,         \* ticks waited so far in the scenario's current wait
    store,          \* the Store value of the save/load round trip (empty outside it)
    reports         \* what the summary screen and the charts screen last built

core == <<now, current_date, widgets, running_label, total_label, file, saved, last_op>>
disk == <<backups, csv_file, logged, signal>>
scenario == <<pc, wait_a, wait_b, waited, store, reports>>
vars == <<now, current_date, widgets, running_label, total_label, file, saved, last_op,
          backups, csv_file, logged, signal, pc, wait_a, wait_b, waited, store, reports>>

----------------------------------------------------------------------------
(* Bounds of the model *)

MaxClock == 2
TicksPerSecond == 2
MaxDay == 1
MaxWidgets == 2
MaxEntries == 1
MaxSeconds == 1
MaxWait == 2
MaxStoreKeys == 3
MaxStopClock == 4
MaxFaultWidgets == 1

----------------------------------------------------------------------------
(* Text and keys *)

NOTE_KEY == <<"_note">>
SECONDS_KEY == <<"seconds">>
DESCRIPTION_KEY == <<"description">>

Whitespace == {" "}

RECURSIVE lstrip(_)
lstrip(text) ==
    IF text # <<>> /\ Head(text) \in Whitespace THEN lstrip(Tail(text)) ELSE text

RECURSIVE rstrip(_)
rstrip(text) ==
    IF text # <<>> /\ text[Len(text)] \in Whitespace
    THEN rstrip(SubSeq(text, 1, Len(text) - 1))
    ELSE text

\* str.strip()
strip(text) == rstrip(lstrip(text))

\* What the user may type into the task name box, the description box and the notepad.
TaskNameInputs == {<<"a">>, <<" ", "a", " ">>, <<" ">>, <<>>}
DescriptionInputs == {<<>>, <<"d">>}
NoteInputs == {<<"n">>}

\* A day of the month in two digits
two_digits(n) == IF n < 10 THEN "0" \o ToString(n) ELSE ToString(n)

\* date.isoformat(): day 0 is 2024-01-31, day n > 0 is 2024-02-n, day -n is
\* 2024-01-(31 - n).
isoformat(day) ==
    IF day <= 0 THEN <<"2024", "01", two_digits(31 + day)>>
    ELSE <<"2024", "02", two_digits(day)>>

----------------------------------------------------------------------------
(* Python objects and ordered dicts *)

PyDict(items) == [t |-> "dict", items |-> items, n |-> 0, s |-> <<>>]
PyStr(s) == [t |-> "str", items |-> <<>>, n |-> 0, s |-> s]
PyInt(n) == [t |-> "int", items |-> <<>>, n |-> n, s |-> <<>>]
\* A list keeps its elements as items [k |-> <<>>, v]
PyList(items) == [t |-> "list", items |-> items, n |-> 0, s |-> <<>>]

\* k in d
DictHas(d, k) == \E i \in DOMAIN d.items : d.items[i].k = k

\* d[k]
DictGet(d, k) == d.items[CHOOSE i \in DOMAIN d.items : d.items[i].k = k].v

\* d[k] = v: an existing key keeps its position, a new key goes last
DictSet(d, k, v) ==
    IF DictHas(d, k)
    THEN PyDict([i \in DOMAIN d.items |->
                    IF d.items[i].k = k THEN [k |-> k, v |-> v] ELSE d.items[i]])
    ELSE PyDict(Append(d.items, [k |-> k, v |-> v]))

\* del d[k]
DictDel(d, k) == PyDict(SelectSeq(d.items, LAMBDA e : e.k # k))

\* {"seconds": seconds, "description": description}
TaskEntry(seconds, description) ==
    PyDict(<<[k |-> SECONDS_KEY, v |-> PyInt(seconds)],
             [k |-> DESCRIPTION_KEY, v |-> PyStr(description)]>>)

----------------------------------------------------------------------------
(* JSON text, by its parse tree *)

JObject(members) == [type |-> "object", members |-> members, num |-> 0, str |-> <<>>]
JArray(elements) == [type |-> "array", members |-> elements, num |-> 0, str |-> <<>>]
JString(s) == [type |-> "string", members |-> <<>>, num |-> 0, str |-> s]
JNumber(n) == [type |-> "number", members |-> <<>>, num |-> n, str |-> <<>>]
\* Text that does not parse; str only tells one such text from another
JInvalid == [type |-> "invalid", members |-> <<>>, num |-> 0, str |-> <<>>]
\* What open(DATA_FILE, "w") followed by a failed write leaves: a cut-off text
JTruncated == [type |-> "invalid", members |-> <<>>, num |-> 0, str |-> <<"truncated">>]

\* The characters json.dump writes with a backslash, and the letter after it
JsonEscaped == {"\"", "\\", "\n"}
escape_letter(c) == IF c = "\n" THEN "n" ELSE c
unescape_letter(c) == IF c = "n" THEN "\n" ELSE c

\* The body of the JSON string literal json.dump writes for s
RECURSIVE json_escape(_)
json_escape(s) ==
    IF s = <<>> THEN <<>>
    ELSE IF Head(s) \in JsonEscaped
         THEN <<"\\", escape_letter(Head(s))>> \o json_escape(Tail(s))
         ELSE <<Head(s)>> \o json_escape(Tail(s))

\* Mutant of json_unescape: the backslashes are left in
json_unescape_keeping_backslashes(body) == body

\* The string json.load reads from the body of a JSON string literal
RECURSIVE json_unescape(_)
json_unescape(body) ==
    IF body = <<>> THEN <<>>
    ELSE IF Head(body) = "\\" /\ Len(body) >= 2
         THEN <<unescape_letter(body[2])>> \o json_unescape(Tail(Tail(body)))
         ELSE <<Head(body)>> \o json_unescape(Tail(body))

\* json.dump(data, f, ensure_ascii=False, indent=2)
RECURSIVE json_dump(_)
json_dump(obj) ==
    CASE obj.t = "dict" ->
            JObject([i \in DOMAIN obj.items |->
                        [name |-> json_escape(obj.items[i].k),
                         value |-> json_dump(obj.items[i].v)]])
      [] obj.t = "list" ->
            JArray([i \in DOMAIN obj.items |->
                        [name |-> <<>>, value |-> json_dump(obj.items[i].v)]])
      [] obj.t = "str" -> JString(json_escape(obj.s))
      [] obj.t = "int" -> JNumber(obj.n)

\* json.load(f) of text that parses
RECURSIVE json_load(_)
json_load(text) ==
    CASE text.type = "object" ->
            PyDict([i \in DOMAIN text.members |->
                        [k |-> json_unescape(text.members[i].name),
                         v |-> json_load(text.members[i].value)]])
      [] text.type = "array" ->
            PyList([i \in DOMAIN text.members |->
                        [k |-> <<>>, v |-> json_load(text.members[i].value)]])
      [] text.type = "string" -> PyStr(json_unescape(text.str))
      [] text.type = "number" -> PyInt(text.num)

NoFile == [exists |-> FALSE, text |-> JInvalid]

\* Whether json.load succeeds and isinstance(data, dict)
Readable(f) == f.exists /\ f.text.type = "object"

\* Whether safe_load_data takes its except branch
Unreadable(f) == f.exists /\ ~Readable(f)

\* safe_load_data(): the dict it returns
safe_load_data(f) ==
    IF ~f.exists THEN PyDict(<<>>)
    ELSE IF f.text.type # "invalid" /\ json_load(f.text).t = "dict"
         THEN json_load(f.text)
         ELSE PyDict(<<>>)

\* The outcomes of the disk operations of one handler
WriteOutcomes == {"ok", "open_fails", "write_fails"}
IO(write, rename, csv) == [write |-> write, rename |-> rename, csv |-> csv]
Healthy == IO("ok", TRUE, "ok")

\* int(datetime.now().timestamp()) at clock reading clock (clock >= 0)
timestamp(clock) == clock \div TicksPerSecond

\* Mutant of file_after_load: the unreadable file is left where it is
file_after_load_in_place(f, io) == f

\* safe_load_data(): the data file it leaves (an unreadable file is renamed
\* away unless os.rename fails)
file_after_load(f, io) == IF Unreadable(f) /\ io.rename THEN NoFile ELSE f

\* safe_load_data(): the backup files it leaves; os.rename replaces a backup of
\* the same name
backups_after_load(f, b, clock, io) ==
    IF Unreadable(f) /\ io.rename
    THEN {x \in b : x.stamp # timestamp(clock)}
            \cup {[stamp |-> timestamp(clock), text |-> f.text]}
    ELSE b

\* safe_load_data(): the entries it appends to error.log
load_logged(f) == IF Unreadable(f) THEN 1 ELSE 0

\* Mutant of save_data: an unreadable file found in place is not written over
save_data_sparing_unreadable(f, data, io) ==
    IF io.write = "ok" /\ ~Unreadable(f)
    THEN [exists |-> TRUE, text |-> json_dump(data)]
    ELSE f

\* save_data(data) on the file f left by the preceding load
save_data(f, data, io) ==
    CASE io.write = "ok" -> [exists |-> TRUE, text |-> json_dump(data)]
      [] io.write = "open_fails" -> f
      [] io.write = "write_fails" -> [exists |-> TRUE, text |-> JTruncated]

\* save_data(): the entries it appends to error.log
save_logged(io) == IF io.write = "ok" THEN 0 ELSE 1

----------------------------------------------------------------------------
(* Formatting and timing *)

\* format_seconds(sec): h:mm:ss as <<h, m, s>> (floor division, as in Python)
format_seconds(sec) == <<sec \div 3600, (sec % 3600) \div 60, sec % 60>>

\* Mutant of whole_seconds: rounds a started second up
whole_seconds_rounded_up(dticks) ==
    IF dticks >= 0 THEN (dticks + TicksPerSecond - 1) \div TicksPerSecond
    ELSE -((-dticks) \div TicksPerSecond)

\* int(timedelta.total_seconds()) of a difference of dticks ticks: truncation toward zero
whole_seconds(dticks) ==
    IF dticks >= 0 THEN dticks \div TicksPerSecond
    ELSE -((-dticks) \div TicksPerSecond)

None == <<>>

\* int((datetime.now() - w.session_start).total_seconds()), 0 when not running
elapsed(w, clock) ==
    IF w.session_start # None THEN whole_seconds(clock - w.session_start[1]) ELSE 0

\* TaskWidget.__init__
TaskWidget(task_name, date_str, initial_seconds, description) ==
    [task_name |-> task_name,
     date_str |-> date_str,
     total_seconds |-> initial_seconds,
     session_start |-> None,
     event |-> FALSE,
     description |-> description,
     time_label |-> format_seconds(initial_seconds)]

\* update_summary(): the two label values computed from the listed widgets
summary_running(ws) == Cardinality({i \in DOMAIN ws : ws[i].session_start # None})

RECURSIVE summary_total(_, _)
summary_total(ws, clock) ==
    IF ws = <<>> THEN 0
    ELSE Head(ws).total_seconds + elapsed(Head(ws), clock) + summary_total(Tail(ws), clock)

\* update_summary() as the closing call of a handler that leaves the widgets ws
update_summary(ws) ==
    /\ running_label' = summary_running(ws)
    /\ total_label' = format_seconds(summary_total(ws, now))

----------------------------------------------------------------------------
(* Store access used by the handlers *)

\* d.get(k, default)
DictGetOr(d, k, default) == IF DictHas(d, k) THEN DictGet(d, k) ELSE default

\* Mutant of with_day: the day record is started afresh
with_day_fresh(data, date_str) == DictSet(data, date_str, PyDict(<<>>))

\* "if date_str not in data: data[date_str] = {}": data with the day present
with_day(data, date_str) ==
    IF DictHas(data, date_str) THEN data ELSE DictSet(data, date_str, PyDict(<<>>))

\* data[date_str][key] = value
set_in_day(data, date_str, key, value) ==
    DictSet(data, date_str, DictSet(DictGet(data, date_str), key, value))

\* Mutant of save_task_time: the entry is written into an empty data, not
\* into the data just loaded
save_task_time_without_load(w, f, io) ==
    save_data(file_after_load(f, io),
              set_in_day(with_day(PyDict(<<>>), w.date_str), w.date_str, w.task_name,
                         TaskEntry(w.total_seconds, w.description)),
              io)

\* TaskWidget.save_task_time(): the data file after it
save_task_time(w, f, io) ==
    LET data == with_day(safe_load_data(f), w.date_str)
    IN  save_data(file_after_load(f, io),
                  set_in_day(data, w.date_str, w.task_name,
                             TaskEntry(w.total_seconds, w.description)),
                  io)

\* The disk besides the data file after a handler that calls safe_load_data
\* once and save_data saves times (0 or 1), and writes no CSV
loaded_and_saved(io, saves) ==
    /\ backups' = backups_after_load(file, backups, now, io)
    /\ logged' = load_logged(file) + saves * save_logged(io)
    /\ UNCHANGED csv_file

\* A handler that neither touches the disk nor opens a popup
quiet ==
    /\ logged' = 0
    /\ signal' = "none"
    /\ UNCHANGED <<backups, csv_file>>

\* The stored task entry of (date_str, task_name), as the engine reads it
HasEntry(f, date_str, task_name) ==
    LET data == safe_load_data(f)
    IN  /\ DictHas(data, date_str)
        /\ DictHas(DictGet(data, date_str), task_name)
        /\ DictGet(DictGet(data, date_str), task_name).t = "dict"

StoredSeconds(f, date_str, task_name) ==
    DictGetOr(DictGet(DictGet(safe_load_data(f), date_str), task_name),
              SECONDS_KEY, PyInt(0)).n

StoredDescription(f, date_str, task_name) ==
    DictGetOr(DictGet(DictGet(safe_load_data(f), date_str), task_name),
              DESCRIPTION_KEY, PyStr(<<>>)).s

----------------------------------------------------------------------------
(* The wall clock *)

\* Time passes: one tick
clock_advance ==
    /\ now' = now + 1
    /\ last_op' = "clock_advance"
    /\ saved' = FALSE
    /\ quiet
    /\ UNCHANGED <<current_date, widgets, running_label, total_label, file>>

\* The system clock is set back to t
clock_set_back(t) ==
    /\ t < now
    /\ now' = t
    /\ last_op' = "clock_set_back"
    /\ saved' = FALSE
    /\ quiet
    /\ UNCHANGED <<current_date, widgets, running_label, total_label, file>>

----------------------------------------------------------------------------
(* TaskWidget handlers; i is the widget's place in the list *)

\* Mutant of start_timer: restarts the session whatever the state
start_timer_restarting(i) ==
    /\ i \in DOMAIN widgets
    /\ saved' = FALSE
    /\ quiet
    /\ UNCHANGED <<now, current_date, file>>
    /\ widgets' = [widgets EXCEPT ![i] = [@ EXCEPT !.session_start = <<now>>, !.event = TRUE]]
    /\ update_summary(widgets')
    /\ last_op' = "start_timer"

\* The widget after start_timer's assignments
started(w, clock) == [w EXCEPT !.session_start = <<clock>>, !.event = TRUE]

\* TaskWidget.start_timer
start_timer(i) ==
    /\ i \in DOMAIN widgets
    /\ saved' = FALSE
    /\ quiet
    /\ UNCHANGED <<now, current_date, file>>
    /\ IF widgets[i].session_start = None
       THEN /\ widgets' = [widgets EXCEPT ![i] = started(widgets[i], now)]
            /\ update_summary(widgets')
            /\ last_op' = "start_timer"
       ELSE /\ last_op' = "start_timer_noop"
            /\ UNCHANGED <<widgets, running_label, total_label>>

\* Mutant of stopped: the elapsed time replaces the cumulative seconds
stopped_overwriting(w, clock) ==
    LET total == elapsed(w, clock)
    IN  [w EXCEPT !.total_seconds = total,
                  !.session_start = None,
                  !.event = FALSE,
                  !.time_label = format_seconds(total)]

\* The widget after stop_timer's assignments
stopped(w, clock) ==
    LET total == w.total_seconds + elapsed(w, clock)
    IN  [w EXCEPT !.total_seconds = total,
                  !.session_start = None,
                  !.event = FALSE,
                  !.time_label = format_seconds(total)]

\* TaskWidget.stop_timer
stop_timer(i, io) ==
    /\ i \in DOMAIN widgets
    /\ UNCHANGED <<now, current_date>>
    /\ IF widgets[i].session_start # None
       THEN /\ widgets' = [widgets EXCEPT ![i] = stopped(widgets[i], now)]
            /\ file' = save_task_time(widgets'[i], file, io)
            /\ loaded_and_saved(io, 1)
            /\ signal' = "none"
            /\ saved' = TRUE
            /\ update_summary(widgets')
            /\ last_op' = "stop_timer"
       ELSE /\ saved' = FALSE
            /\ quiet
            /\ last_op' = "stop_timer_noop"
            /\ UNCHANGED <<widgets, running_label, total_label, file>>

\* Mutant of displayed: the tick also commits the elapsed time
displayed_committing(w, clock) ==
    [w EXCEPT !.total_seconds = w.total_seconds + elapsed(w, clock),
              !.time_label = format_seconds(w.total_seconds + elapsed(w, clock))]

\* Mutant of displayed: the tick shows the cumulative seconds alone
displayed_without_elapsed(w, clock) ==
    [w EXCEPT !.time_label = format_seconds(w.total_seconds)]

\* The widget after update_time_display's assignment
displayed(w, clock) ==
    [w EXCEPT !.time_label = format_seconds(w.total_seconds + elapsed(w, clock))]

\* TaskWidget.update_time_display, the 0.5 s callback scheduled by start_timer
update_time_display(i) ==
    /\ i \in DOMAIN widgets
    /\ widgets[i].event
    /\ widgets' = [widgets EXCEPT ![i] = displayed(widgets[i], now)]
    /\ update_summary(widgets')
    /\ saved' = FALSE
    /\ quiet
    /\ last_op' = "update_time_display"
    /\ UNCHANGED <<now, current_date, file>>

\* TaskWidget.open_description_popup.do_save with the popup's text
do_save(i, text, io) ==
    /\ i \in DOMAIN widgets
    /\ widgets' = [widgets EXCEPT ![i].description = text]
    /\ file' = save_task_time(widgets'[i], file, io)
    /\ loaded_and_saved(io, 1)
    /\ signal' = "none"
    /\ saved' = TRUE
    /\ update_summary(widgets')
    /\ last_op' = "do_save"
    /\ UNCHANGED <<now, current_date>>

\* The list without its i-th widget (remove_widget)
remove_widget(ws, i) == SubSeq(ws, 1, i - 1) \o SubSeq(ws, i + 1, Len(ws))

\* do_delete: whether the (date, task) entry is found in the loaded data
delete_finds(f, w) ==
    LET data == safe_load_data(f)
    IN  DictHas(data, w.date_str) /\ DictHas(DictGet(data, w.date_str), w.task_name)

\* Mutant of delete_data: the running session is committed instead of discarded
delete_data_committing(f, w) ==
    LET data == safe_load_data(f)
    IN  set_in_day(data, w.date_str, w.task_name,
                   TaskEntry(w.total_seconds + elapsed(w, now), w.description))

\* Mutant of delete_data: the date key goes with the task, whatever the day still holds
delete_data_dropping_day(f, w) == DictDel(safe_load_data(f), w.date_str)

\* Mutant of delete_data: the date key stays even when the day record is left empty
delete_data_keeping_day(f, w) ==
    LET data == safe_load_data(f)
    IN  DictSet(data, w.date_str, DictDel(DictGet(data, w.date_str), w.task_name))

\* do_delete: the data it saves when the entry is found
delete_data(f, w) ==
    LET data == safe_load_data(f)
        day == DictDel(DictGet(data, w.date_str), w.task_name)
    IN  IF day.items = <<>> THEN DictDel(data, w.date_str)
        ELSE DictSet(data, w.date_str, day)

\* TaskWidget.confirm_delete.do_delete.  Nothing in its try block raises (save_data
\* catches the write error itself), so the "Delete failed" popup never opens.
do_delete(i, io) ==
    /\ i \in DOMAIN widgets
    /\ widgets' = remove_widget(widgets, i)
    /\ IF delete_finds(file, widgets[i])
       THEN /\ file' = save_data(file_after_load(file, io), delete_data(file, widgets[i]), io)
            /\ loaded_and_saved(io, 1)
            /\ saved' = TRUE
       ELSE /\ file' = file_after_load(file, io)
            /\ loaded_and_saved(io, 0)
            /\ saved' = FALSE
    /\ signal' = "none"
    /\ update_summary(widgets')
    /\ last_op' = IF widgets[i].session_start # None THEN "do_delete_running" ELSE "do_delete"
    /\ UNCHANGED <<now, current_date>>

----------------------------------------------------------------------------
(* TaskApp handlers *)

\* The widgets load_tasks_for_date builds from one day's record, in its order
RECURSIVE day_widgets(_, _)
day_widgets(items, date_str) ==
    IF items = <<>> THEN <<>>
    ELSE IF Head(items).k = NOTE_KEY THEN day_widgets(Tail(items), date_str)
    ELSE <<TaskWidget(Head(items).k, date_str,
                      DictGetOr(Head(items).v, SECONDS_KEY, PyInt(0)).n,
                      DictGetOr(Head(items).v, DESCRIPTION_KEY, PyStr(<<>>)).s)>>
         \o day_widgets(Tail(items), date_str)

\* Mutant of load_tasks_for_date: a session running in a listed widget is
\* committed to the data file before the list is rebuilt
load_tasks_for_date_committing(day, io) ==
    LET date_str == isoformat(day)
        running == {i \in DOMAIN widgets : widgets[i].session_start # None}
        first == widgets[CHOOSE i \in running : TRUE]
        committed ==
            IF running = {} THEN file_after_load(file, io)
            ELSE save_task_time([first EXCEPT !.total_seconds = @ + elapsed(first, now)],
                                file, io)
        data == safe_load_data(committed)
    IN  /\ widgets' = IF DictHas(data, date_str)
                      THEN day_widgets(DictGet(data, date_str).items, date_str)
                      ELSE <<>>
        /\ file' = committed
        /\ loaded_and_saved(io, 0)
        /\ signal' = "none"
        /\ update_summary(widgets')
        /\ saved' = FALSE
        /\ last_op' = "load_tasks_for_date"
        /\ UNCHANGED now

\* TaskApp.load_tasks_for_date for the day number day.  clear_widgets drops the
\* listed widgets without stopping them: a session running in a dropped widget
\* is never committed, and no handler can reach that widget again.
load_tasks_for_date(day, io) ==
    LET date_str == isoformat(day)
        data == safe_load_data(file)
    IN  /\ widgets' = IF DictHas(data, date_str)
                      THEN day_widgets(DictGet(data, date_str).items, date_str)
                      ELSE <<>>
        /\ file' = file_after_load(file, io)
        /\ loaded_and_saved(io, 0)
        /\ signal' = "none"
        /\ update_summary(widgets')
        /\ saved' = FALSE
        /\ last_op' = "load_tasks_for_date"
        /\ UNCHANGED now

\* TaskApp.prev_day
prev_day(io) ==
    /\ current_date' = current_date - 1
    /\ load_tasks_for_date(current_date', io)

\* TaskApp.next_day
next_day(io) ==
    /\ current_date' = current_date + 1
    /\ load_tasks_for_date(current_date', io)

\* TaskApp.add_task with the text of the task name box
add_task(text, io) ==
    LET task_name == strip(text)
        date_str == isoformat(current_date)
        data == with_day(safe_load_data(file), date_str)
    IN  /\ UNCHANGED <<now, current_date>>
        /\ last_op' = "add_task"
        /\ signal' = "none"
        /\ IF task_name = <<>>
           THEN /\ saved' = FALSE
                /\ logged' = 0
                /\ UNCHANGED <<widgets, running_label, total_label, file, backups, csv_file>>
           ELSE /\ widgets' = Append(widgets, TaskWidget(task_name, date_str, 0, <<>>))
                /\ IF ~DictHas(DictGet(data, date_str), task_name)
                   THEN /\ file' = save_data(file_after_load(file, io),
                                             set_in_day(data, date_str, task_name,
                                                        TaskEntry(0, <<>>)),
                                             io)
                        /\ loaded_and_saved(io, 1)
                        /\ saved' = TRUE
                   ELSE /\ file' = file_after_load(file, io)
                        /\ loaded_and_saved(io, 0)
                        /\ saved' = FALSE
                /\ update_summary(widgets')

\* TaskApp.update_summary as the 1.0 s callback scheduled by on_start
summary_tick ==
    /\ update_summary(widgets)
    /\ saved' = FALSE
    /\ quiet
    /\ last_op' = "update_summary"
    /\ UNCHANGED <<now, current_date, widgets, file>>

\* TaskApp.open_notepad_screen: it loads the data to show the day's note
open_notepad_screen(io) ==
    /\ file' = file_after_load(file, io)
    /\ loaded_and_saved(io, 0)
    /\ signal' = "none"
    /\ saved' = FALSE
    /\ last_op' = "open_notepad_screen"
    /\ UNCHANGED <<now, current_date, widgets, running_label, total_label>>

\* TaskApp.save_notepad_for_current_date with the notepad's text.  save_data
\* catches the write error itself, so the "Saved" popup opens either way.
save_notepad_for_current_date(text, io) ==
    LET date_str == isoformat(current_date)
        data == with_day(safe_load_data(file), date_str)
    IN  /\ file' = save_data(file_after_load(file, io),
                             set_in_day(data, date_str, NOTE_KEY, PyStr(text)),
                             io)
        /\ loaded_and_saved(io, 1)
        /\ signal' = "saved"
        /\ saved' = TRUE
        /\ last_op' = "save_notepad_for_current_date"
        /\ UNCHANGED <<now, current_date, widgets, running_label, total_label>>

----------------------------------------------------------------------------
(* CSV export *)

NoCsv == [exists |-> FALSE, lines |-> <<>>]

\* The day number a date string stands for; ISO date strings sort as their days do
day_of(date_str) == CHOOSE day \in -1..(MaxDay + 1) : isoformat(day) = date_str

\* Mutant of entry_seconds: a zero-second entry counts with the weight 1 of
\* the pie fallback
entry_seconds_weighted(info) ==
    IF DictGetOr(info, SECONDS_KEY, PyInt(0)).n = 0 THEN 1
    ELSE DictGetOr(info, SECONDS_KEY, PyInt(0)).n

\* int(info.get("seconds", 0) or 0)
entry_seconds(info) == DictGetOr(info, SECONDS_KEY, PyInt(0)).n

\* The (task, date, seconds) triples of one day, as export_csv_all's inner loop meets them
RECURSIVE day_rows(_, _)
day_rows(items, date_str) ==
    IF items = <<>> THEN <<>>
    ELSE IF Head(items).k = NOTE_KEY THEN day_rows(Tail(items), date_str)
    ELSE <<[tname |-> Head(items).k, date |-> date_str, sec |-> entry_seconds(Head(items).v)]>>
         \o day_rows(Tail(items), date_str)

\* The triples of the whole data, days that are not dicts skipped
RECURSIVE data_rows(_)
data_rows(days) ==
    IF days = <<>> THEN <<>>
    ELSE (IF Head(days).v.t = "dict" THEN day_rows(Head(days).v.items, Head(days).k) ELSE <<>>)
         \o data_rows(Tail(days))

\* Mutant of agg_add: a day is listed in per_day whatever its seconds
agg_add_listing_every_day(agg, r) ==
    IF \E i \in DOMAIN agg : agg[i].tname = r.tname
    THEN [i \in DOMAIN agg |->
             IF agg[i].tname = r.tname
             THEN [tname |-> r.tname,
                   total_seconds |-> agg[i].total_seconds + r.sec,
                   per_day |-> DictSet(agg[i].per_day, r.date, PyInt(r.sec))]
             ELSE agg[i]]
    ELSE Append(agg, [tname |-> r.tname,
                      total_seconds |-> r.sec,
                      per_day |-> DictSet(PyDict(<<>>), r.date, PyInt(r.sec))])

\* agg after one triple: a new task goes last, seconds add up, a day counts when sec > 0
agg_add(agg, r) ==
    LET per_day(old) == IF r.sec > 0 THEN DictSet(old, r.date, PyInt(r.sec)) ELSE old
    IN  IF \E i \in DOMAIN agg : agg[i].tname = r.tname
        THEN [i \in DOMAIN agg |->
                 IF agg[i].tname = r.tname
                 THEN [tname |-> r.tname,
                       total_seconds |-> agg[i].total_seconds + r.sec,
                       per_day |-> per_day(agg[i].per_day)]
                 ELSE agg[i]]
        ELSE Append(agg, [tname |-> r.tname,
                          total_seconds |-> r.sec,
                          per_day |-> per_day(PyDict(<<>>))])

\* agg of export_csv_all, in insertion order
RECURSIVE aggregate(_, _)
aggregate(rows, agg) ==
    IF rows = <<>> THEN agg ELSE aggregate(Tail(rows), agg_add(agg, Head(rows)))

\* Mutant of per_day_str: the pairs in the order per_day was filled, not sorted
RECURSIVE per_day_str_unsorted(_, _)
per_day_str_unsorted(per_day, day) ==
    IF per_day.items = <<>> THEN <<>>
    ELSE LET rest == per_day_str_unsorted(PyDict(Tail(per_day.items)), day)
         IN  Head(per_day.items).k \o <<":", ToString(Head(per_day.items).v.n)>>
               \o (IF rest = <<>> THEN <<>> ELSE <<";">> \o rest)

\* ";".join(f"{d}:{per_day[d]}" for d in sorted(per_day.keys())), days from day on
RECURSIVE per_day_str(_, _)
per_day_str(per_day, day) ==
    IF day > MaxDay + 1 THEN <<>>
    ELSE LET rest == per_day_str(per_day, day + 1)
             d == isoformat(day)
         IN  IF DictHas(per_day, d)
             THEN d \o <<":", ToString(DictGet(per_day, d).n)>>
                    \o (IF rest = <<>> THEN <<>> ELSE <<";">> \o rest)
             ELSE rest

\* One line of the CSV: "task",total,days,"breakdown"
csv_line(info) ==
    <<"\"">> \o info.tname
        \o <<"\"", ",", ToString(info.total_seconds), ",",
             ToString(Len(info.per_day.items)), ",", "\"">>
        \o per_day_str(info.per_day, -1) \o <<"\"">>

CSV_HEADER == <<"task_name", ",", "total_seconds", ",", "days_count", ",", "per_day_breakdown">>

\* lines of export_csv_all for the loaded data
csv_lines(data) ==
    LET agg == aggregate(data_rows(data.items), <<>>)
    IN  <<CSV_HEADER>> \o [i \in DOMAIN agg |-> csv_line(agg[i])]

\* TaskApp.export_csv_all: a failed CSV write raises into the handler's except
\* branch, which logs it and opens the "Error" popup
export_csv_all(io) ==
    /\ file' = file_after_load(file, io)
    /\ backups' = backups_after_load(file, backups, now, io)
    /\ csv_file' = CASE io.csv = "ok" ->
                          [exists |-> TRUE, lines |-> csv_lines(safe_load_data(file))]
                     [] io.csv = "open_fails" -> csv_file
                     [] io.csv = "write_fails" -> [exists |-> TRUE, lines |-> <<>>]
    /\ logged' = load_logged(file) + (IF io.csv = "ok" THEN 0 ELSE 1)
    /\ signal' = IF io.csv = "ok" THEN "export_complete" ELSE "error"
    /\ saved' = FALSE
    /\ last_op' = "export_csv_all"
    /\ UNCHANGED <<now, current_date, widgets, running_label, total_label>>

----------------------------------------------------------------------------
(* Summary screen and charts screen *)

\* What the report screens hold: the cards of the summary screen, the points
\* handed to the line chart, the pies of the charts screen; empty until built
NoReports == [summary |-> <<>>, line |-> <<>>, pies |-> <<>>]

\* ord(c) of the letters task names are compared by
ord(c) == CASE c = "A" -> 65 [] c = "B" -> 66 [] c = "a" -> 97 [] c = "b" -> 98 [] OTHER -> 0

\* str.lower(), letter by letter
lower_letter(c) == CASE c = "A" -> "a" [] c = "B" -> "b" [] OTHER -> c

lower(text) == [i \in DOMAIN text |-> lower_letter(text[i])]

\* Python's x < y on strings: by code point, a proper prefix first
RECURSIVE str_less(_, _)
str_less(x, y) ==
    IF y = <<>> THEN FALSE
    ELSE IF x = <<>> THEN TRUE
    ELSE IF ord(Head(x)) # ord(Head(y)) THEN ord(Head(x)) < ord(Head(y))
    ELSE str_less(Tail(x), Tail(y))

\* One step of sorted(..., key=lambda x: x[0].lower()): info goes before the
\* first card whose lowered name is greater, so equal keys keep their order
RECURSIVE insert_by_lower(_, _)
insert_by_lower(cards, info) ==
    IF cards = <<>> THEN <<info>>
    ELSE IF str_less(lower(info.tname), lower(Head(cards).tname)) THEN <<info>> \o cards
    ELSE <<Head(cards)>> \o insert_by_lower(Tail(cards), info)

\* sorted(agg.items(), key=lambda x: x[0].lower())
RECURSIVE sorted_by_lower(_)
sorted_by_lower(agg) ==
    IF agg = <<>> THEN <<>>
    ELSE insert_by_lower(sorted_by_lower(SubSeq(agg, 1, Len(agg) - 1)), agg[Len(agg)])

\* sorted(info["per_day"].items()): the (date, seconds) pairs from day on
RECURSIVE sorted_items(_, _)
sorted_items(per_day, day) ==
    IF day > MaxDay + 1 THEN <<>>
    ELSE (IF DictHas(per_day, isoformat(day))
          THEN <<[date |-> isoformat(day), sec |-> DictGet(per_day, isoformat(day)).n]>>
          ELSE <<>>)
         \o sorted_items(per_day, day + 1)

\* One card of the summary screen: the header's name, total and day count,
\* and the per-day rows
summary_card(info) ==
    [tname |-> info.tname,
     total |-> info.total_seconds,
     days_count |-> Len(info.per_day.items),
     rows |-> sorted_items(info.per_day, -1)]

\* The cards build_summary_screen adds; none stands for "No tasks recorded yet."
summary_cards(data) ==
    LET agg == sorted_by_lower(aggregate(data_rows(data.items), <<>>))
    IN  [i \in DOMAIN agg |-> summary_card(agg[i])]

\* TaskApp.open_summary_screen: safe_build_summary_screen
build_summary_screen(io) ==
    /\ file' = file_after_load(file, io)
    /\ backups' = backups_after_load(file, backups, now, io)
    /\ logged' = load_logged(file)
    /\ signal' = "none"
    /\ reports' = [reports EXCEPT !.summary = summary_cards(safe_load_data(file))]
    /\ saved' = FALSE
    /\ last_op' = "build_summary_screen"
    /\ UNCHANGED <<now, current_date, widgets, running_label, total_label, csv_file>>

\* total_s of one date: the seconds of its entries, the note skipped
RECURSIVE day_total(_)
day_total(items) ==
    IF items = <<>> THEN 0
    ELSE (IF Head(items).k = NOTE_KEY THEN 0 ELSE entry_seconds(Head(items).v))
         + day_total(Tail(items))

\* per_date_seconds: one (date, total_s) for every key of data, in
\* sorted(data.keys()) order, from day on
RECURSIVE per_date_seconds(_, _)
per_date_seconds(data, day) ==
    IF day > MaxDay + 1 THEN <<>>
    ELSE (IF DictHas(data, isoformat(day))
          THEN <<[date |-> isoformat(day),
                  sec |-> day_total(DictGet(data, isoformat(day)).items)]>>
          ELSE <<>>)
         \o per_date_seconds(data, day + 1)

\* per_date_seconds[d] / 3600.0, kept as the exact quotient
hours_of(sec) == [num |-> sec, den |-> 3600]

\* generate_line_chart: dates and hours, point by point
generate_line_chart(per_date) ==
    [i \in DOMAIN per_date |-> [date |-> per_date[i].date, hours |-> hours_of(per_date[i].sec)]]

\* tasks of one date: {k: int(v.get("seconds", 0) or 0) ... if k != "_note"}
RECURSIVE tasks_of(_)
tasks_of(items) ==
    IF items = <<>> THEN <<>>
    ELSE (IF Head(items).k = NOTE_KEY THEN <<>>
          ELSE <<[tname |-> Head(items).k, sec |-> entry_seconds(Head(items).v)]>>)
         \o tasks_of(Tail(items))

\* dates_with_tasks: the dates whose tasks dict is not empty, ascending, from day on
RECURSIVE dates_with_tasks(_, _)
dates_with_tasks(data, day) ==
    IF day > MaxDay + 1 THEN <<>>
    ELSE (IF /\ DictHas(data, isoformat(day))
             /\ tasks_of(DictGet(data, isoformat(day)).items) # <<>>
          THEN <<[date |-> isoformat(day),
                  tasks |-> tasks_of(DictGet(data, isoformat(day)).items)]>>
          ELSE <<>>)
         \o dates_with_tasks(data, day + 1)

\* Mutant of pie_slices: a zero-second task keeps a slice of size 0 beside
\* the positive ones
pie_slices_keeping_zero(tasks) ==
    IF \A i \in DOMAIN tasks : tasks[i].sec <= 0
    THEN [i \in DOMAIN tasks |-> [label |-> tasks[i].tname, size |-> 1]]
    ELSE [i \in DOMAIN tasks |-> [label |-> tasks[i].tname, size |-> tasks[i].sec]]

\* labels and sizes of generate_pie_chart: the tasks with sec > 0, or every
\* task with size 1 when there is none
pie_slices(tasks) ==
    LET positive == SelectSeq(tasks, LAMBDA task : task.sec > 0)
    IN  IF positive = <<>>
        THEN [i \in DOMAIN tasks |-> [label |-> tasks[i].tname, size |-> 1]]
        ELSE [i \in DOMAIN positive |-> [label |-> positive[i].tname, size |-> positive[i].sec]]

\* TaskApp.generate_pie_chart: the tasks it is handed and what it draws
generate_pie_chart(date_str, tasks) ==
    [date |-> date_str, tasks |-> tasks, slices |-> pie_slices(tasks)]

\* The data build_charts_screen can walk: every top-level value has items()
Chartable(data) == \A i \in DOMAIN data.items : data.items[i].v.t = "dict"

\* TaskApp.open_charts_screen: safe_build_charts_screen, matplotlib installed.
\* A top-level value without items() raises before anything is drawn; the
\* wrapper logs it and opens the "Charts Error" popup.
build_charts_screen(io) ==
    LET data == safe_load_data(file)
        with_tasks == dates_with_tasks(data, -1)
    IN  /\ file' = file_after_load(file, io)
        /\ backups' = backups_after_load(file, backups, now, io)
        /\ logged' = load_logged(file) + (IF Chartable(data) THEN 0 ELSE 1)
        /\ signal' = IF Chartable(data) THEN "none" ELSE "error"
        /\ reports' =
              IF Chartable(data)
              THEN [reports EXCEPT
                       !.line = generate_line_chart(per_date_seconds(data, -1)),
                       !.pies = [i \in DOMAIN with_tasks |->
                                    generate_pie_chart(with_tasks[i].date, with_tasks[i].tasks)]]
              ELSE reports
        /\ saved' = FALSE
        /\ last_op' = "build_charts_screen"
        /\ UNCHANGED <<now, current_date, widgets, running_label, total_label, csv_file>>

----------------------------------------------------------------------------
(* The specification: any interleaving of the handlers, the clock free to  *)
(* run and to be set back, every disk write succeeding.                    *)

\* TaskApp.build on a fresh installation: no data file, nothing listed
InitCore ==
    /\ current_date = 0
    /\ widgets = <<>>
    /\ running_label = 0
    /\ total_label = format_seconds(0)
    /\ file = NoFile
    /\ backups = {}
    /\ csv_file = NoCsv
    /\ logged = 0
    /\ signal = "none"
    /\ saved = FALSE
    /\ last_op = "build"

Init ==
    /\ InitCore
    /\ now = 0
    /\ pc = "free"
    /\ wait_a = 0
    /\ wait_b = 0
    /\ waited = 0
    /\ store = PyDict(<<>>)
    /\ reports = NoReports

\* Model bound: the cumulative seconds a stop may leave
StopInBounds(i) ==
    LET total == widgets[i].total_seconds + elapsed(widgets[i], now)
    IN  total <= MaxSeconds /\ -total <= MaxSeconds

\* The number of task entries in the store
RECURSIVE count_entries(_)
count_entries(days) ==
    IF days = <<>> THEN 0
    ELSE Len(SelectSeq(Head(days).v.items, LAMBDA e : e.k # NOTE_KEY))
         + count_entries(Tail(days))

\* Model bound: the widgets listed and the task entries stored after an add_task
AddInBounds(text) ==
    /\ Len(widgets) < MaxWidgets
    /\ \/ strip(text) = <<>>
       \/ delete_finds(file, TaskWidget(strip(text), isoformat(current_date), 0, <<>>))
       \/ count_entries(safe_load_data(file).items) < MaxEntries

Next ==
    \/ now < MaxClock /\ clock_advance /\ UNCHANGED scenario
    \/ \E t \in 0..MaxClock : clock_set_back(t) /\ UNCHANGED scenario
    \/ \E i \in DOMAIN widgets : start_timer(i) /\ UNCHANGED scenario
    \/ \E i \in DOMAIN widgets :
          StopInBounds(i) /\ stop_timer(i, Healthy) /\ UNCHANGED scenario
    \/ \E i \in DOMAIN widgets : update_time_display(i) /\ UNCHANGED scenario
    \/ \E i \in DOMAIN widgets : \E text \in DescriptionInputs :
          do_save(i, text, Healthy) /\ UNCHANGED scenario
    \/ \E i \in DOMAIN widgets : do_delete(i, Healthy) /\ UNCHANGED scenario
    \/ \E text \in TaskNameInputs :
          AddInBounds(text) /\ add_task(text, Healthy) /\ UNCHANGED scenario
    \/ current_date > 0 /\ prev_day(Healthy) /\ UNCHANGED scenario
    \/ current_date < MaxDay /\ next_day(Healthy) /\ UNCHANGED scenario
    \/ summary_tick /\ UNCHANGED scenario

Spec == Init /\ [][Next]_vars

----------------------------------------------------------------------------
(* The two-session scenario: on a freshly added task, start, wait_a        *)
(* seconds pass, stop, start, wait_b seconds pass, stop.  The display and  *)
(* summary callbacks fire freely in between; nothing else touches the task.*)

ScenarioTask == <<"a">>

InitAB ==
    /\ InitCore
    /\ now \in 0..(TicksPerSecond - 1)
    /\ pc = "add"
    /\ wait_a \in 0..MaxWait
    /\ wait_b \in 0..MaxWait
    /\ waited = 0
    /\ store = PyDict(<<>>)
    /\ reports = NoReports

\* The ticks of the wait the scenario is in
WaitTicks == (IF pc = "wait_a" THEN wait_a ELSE wait_b) * TicksPerSecond

NextAB ==
    \/ /\ pc = "add"
       /\ add_task(ScenarioTask, Healthy)
       /\ pc' = "start_a"
       /\ UNCHANGED <<wait_a, wait_b, waited, store, reports>>
    \/ /\ pc \in {"start_a", "start_b"}
       /\ start_timer(1)
       /\ pc' = (IF pc = "start_a" THEN "wait_a" ELSE "wait_b")
       /\ waited' = 0
       /\ UNCHANGED <<wait_a, wait_b, store, reports>>
    \/ /\ pc \in {"wait_a", "wait_b"}
       /\ waited < WaitTicks
       /\ clock_advance
       /\ waited' = waited + 1
       /\ UNCHANGED <<pc, wait_a, wait_b, store, reports>>
    \/ /\ pc \in {"wait_a", "wait_b"}
       /\ waited = WaitTicks
       /\ stop_timer(1, Healthy)
       /\ pc' = (IF pc = "wait_a" THEN "start_b" ELSE "done")
       /\ UNCHANGED <<wait_a, wait_b, waited, store, reports>>
    \/ /\ pc \in {"wait_a", "wait_b"}
       /\ update_time_display(1)
       /\ UNCHANGED scenario
    \/ /\ pc # "add"
       /\ summary_tick
       /\ UNCHANGED scenario

SpecAB == InitAB /\ [][NextAB]_vars

----------------------------------------------------------------------------
(* The store specification: several task names (the reserved key among     *)
(* them), notes, two dates; every disk operation succeeds.                 *)

StoreNameInputs == {<<"a">>, <<"b">>, <<" ">>}
StoreNoteInputs == {<<"n">>}
StoreDescriptionInputs == {<<"d">>}

\* The number of keys (task names and notes) in all day records of the store
RECURSIVE count_keys(_)
count_keys(days) ==
    IF days = <<>> THEN 0 ELSE Len(Head(days).v.items) + count_keys(Tail(days))

\* Model bound: a handler may write key under date_str if that adds no key
\* beyond MaxStoreKeys
KeyInBounds(date_str, key) ==
    LET data == safe_load_data(file)
    IN  \/ DictHas(data, date_str) /\ DictHas(DictGet(data, date_str), key)
        \/ count_keys(data.items) < MaxStoreKeys

NextStore ==
    \/ \E i \in DOMAIN widgets : \E text \in StoreDescriptionInputs :
          /\ KeyInBounds(widgets[i].date_str, widgets[i].task_name)
          /\ do_save(i, text, Healthy)
          /\ UNCHANGED scenario
    \/ \E i \in DOMAIN widgets : do_delete(i, Healthy) /\ UNCHANGED scenario
    \/ \E text \in StoreNameInputs :
          /\ Len(widgets) < MaxWidgets
          /\ KeyInBounds(isoformat(current_date), strip(text))
          /\ add_task(text, Healthy)
          /\ UNCHANGED scenario
    \/ \E text \in StoreNoteInputs :
          /\ KeyInBounds(isoformat(current_date), NOTE_KEY)
          /\ save_notepad_for_current_date(text, Healthy)
          /\ UNCHANGED scenario
    \/ current_date > 0 /\ prev_day(Healthy) /\ UNCHANGED scenario
    \/ current_date < MaxDay /\ next_day(Healthy) /\ UNCHANGED scenario

SpecStore == Init /\ [][NextStore]_vars

----------------------------------------------------------------------------
(* The reserved-key specification: the user may name a task "_note"; every *)
(* handler that writes the store takes part, timers included.  The clock   *)
(* stands still, so a stop commits a session of 0 seconds.                 *)

ReservedNameInputs == {<<"a">>, NOTE_KEY}

NextReserved ==
    \/ \E i \in DOMAIN widgets : start_timer(i) /\ UNCHANGED scenario
    \/ \E i \in DOMAIN widgets :
          /\ KeyInBounds(widgets[i].date_str, widgets[i].task_name)
          /\ stop_timer(i, Healthy)
          /\ UNCHANGED scenario
    \/ \E i \in DOMAIN widgets : \E text \in StoreDescriptionInputs :
          /\ KeyInBounds(widgets[i].date_str, widgets[i].task_name)
          /\ do_save(i, text, Healthy)
          /\ UNCHANGED scenario
    \/ \E i \in DOMAIN widgets : do_delete(i, Healthy) /\ UNCHANGED scenario
    \/ \E text \in ReservedNameInputs :
          /\ Len(widgets) < MaxWidgets
          /\ KeyInBounds(isoformat(current_date), strip(text))
          /\ add_task(text, Healthy)
          /\ UNCHANGED scenario
    \/ \E text \in StoreNoteInputs :
          /\ KeyInBounds(isoformat(current_date), NOTE_KEY)
          /\ save_notepad_for_current_date(text, Healthy)
          /\ UNCHANGED scenario
    \/ current_date > 0 /\ prev_day(Healthy) /\ UNCHANGED scenario
    \/ current_date < MaxDay /\ next_day(Healthy) /\ UNCHANGED scenario

SpecReserved == Init /\ [][NextReserved]_vars

----------------------------------------------------------------------------
(* The fault specification: the program is launched on a data file that    *)
(* may be absent, valid or unreadable; every write and rename may fail.    *)

\* The data file a previous run left: one task with one second on day 0
StoredBefore ==
    json_dump(set_in_day(with_day(PyDict(<<>>), isoformat(0)), isoformat(0),
                         <<"a">>, TaskEntry(1, <<>>)))

\* The texts the data file may hold at launch: a store, a scalar, an array,
\* text that is not JSON
LaunchTexts ==
    {StoredBefore, JString(<<"not a json object">>), JArray(<<>>), JInvalid}

InitFaults ==
    /\ now \in 0..1
    /\ current_date = 0
    /\ widgets = <<>>
    /\ running_label = 0
    /\ total_label = format_seconds(0)
    /\ file \in {NoFile} \cup {[exists |-> TRUE, text |-> t] : t \in LaunchTexts}
    /\ backups = {}
    /\ csv_file = NoCsv
    /\ logged = 0
    /\ signal = "none"
    /\ saved = FALSE
    /\ last_op = "launch"
    /\ pc = "free"
    /\ wait_a = 0
    /\ wait_b = 0
    /\ waited = 0
    /\ store = PyDict(<<>>)
    /\ reports = NoReports

\* TaskApp.build: its load_tasks_for_date() and update_summary()
build(io) ==
    /\ UNCHANGED current_date
    /\ load_tasks_for_date(current_date, io)

Built == last_op # "launch"

FaultNameInputs == {<<"a">>}

NextFaults ==
    \/ \E r \in BOOLEAN :
          ~Built /\ build(IO("ok", r, "ok")) /\ UNCHANGED scenario
    \/ Built /\ now < MaxClock /\ clock_advance /\ UNCHANGED scenario
    \/ \E i \in DOMAIN widgets : Built /\ start_timer(i) /\ UNCHANGED scenario
    \/ \E i \in DOMAIN widgets : \E w \in WriteOutcomes, r \in BOOLEAN :
          Built /\ StopInBounds(i) /\ stop_timer(i, IO(w, r, "ok")) /\ UNCHANGED scenario
    \/ \E i \in DOMAIN widgets : \E w \in WriteOutcomes, r \in BOOLEAN :
          Built /\ do_delete(i, IO(w, r, "ok")) /\ UNCHANGED scenario
    \/ \E text \in FaultNameInputs : \E w \in WriteOutcomes, r \in BOOLEAN :
          /\ Built
          /\ Len(widgets) < MaxFaultWidgets
          /\ add_task(text, IO(w, r, "ok"))
          /\ UNCHANGED scenario
    \/ \E r \in BOOLEAN :
          Built /\ open_notepad_screen(IO("ok", r, "ok")) /\ UNCHANGED scenario
    \/ \E c \in WriteOutcomes, r \in BOOLEAN :
          Built /\ export_csv_all(IO("ok", r, c)) /\ UNCHANGED scenario

SpecFaults == InitFaults /\ [][NextFaults]_vars

----------------------------------------------------------------------------
(* The round-trip specification: a Store drawn from a bounded set is saved *)
(* with save_data, loaded with safe_load_data, and saved again.            *)

\* Descriptions and notes with the characters JSON escapes: a quote, a
\* backslash before the letter n, a newline
RoundTripTexts == {<<>>, <<"d">>, <<"\"">>, <<"\\", "n">>, <<"\n">>}

\* The day records: an optional task entry followed by an optional note
RoundTripDays ==
    {PyDict(task \o note) :
        task \in {<<>>} \cup {<<[k |-> <<"a">>, v |-> TaskEntry(sec, text)]>> :
                                 sec \in 0..MaxSeconds, text \in RoundTripTexts},
        note \in {<<>>} \cup {<<[k |-> NOTE_KEY, v |-> PyStr(text)]>> :
                                 text \in RoundTripTexts}}

\* The Stores: each of two dates absent or mapped to a day record
RoundTripStores ==
    {PyDict(first \o second) :
        first \in {<<>>} \cup {<<[k |-> isoformat(0), v |-> day]>> : day \in RoundTripDays},
        second \in {<<>>} \cup {<<[k |-> isoformat(1), v |-> day]>> : day \in RoundTripDays}}

InitRoundTrip ==
    /\ InitCore
    /\ now = 0
    /\ pc = "save"
    /\ wait_a = 0
    /\ wait_b = 0
    /\ waited = 0
    /\ store \in RoundTripStores
    /\ reports = NoReports

\* A round-trip step leaves the program's own state alone
round_trip_frame ==
    /\ saved' = FALSE
    /\ quiet
    /\ UNCHANGED <<now, current_date, widgets, running_label, total_label,
                   wait_a, wait_b, waited, reports>>

NextRoundTrip ==
    \/ /\ pc \in {"save", "save_again"}
       /\ file' = save_data(file, store, Healthy)
       /\ pc' = (IF pc = "save" THEN "load" ELSE "done")
       /\ last_op' = "save_data"
       /\ round_trip_frame
       /\ UNCHANGED store
    \/ /\ pc = "load"
       /\ store' = safe_load_data(file)
       /\ pc' = "save_again"
       /\ last_op' = "safe_load_data"
       /\ round_trip_frame
       /\ UNCHANGED file

SpecRoundTrip == InitRoundTrip /\ [][NextRoundTrip]_vars

----------------------------------------------------------------------------
(* The two-task scenario: tasks a and b are added, started in any order    *)
(* while the clock runs, and, once both run, stopped one right after the   *)
(* other with no clock tick in between, in either order.  Then again.      *)

TwoStopTasks == <<(<<"a">>), (<<"b">>)>>

InitTwoStops ==
    /\ InitCore
    /\ now \in 0..(TicksPerSecond - 1)
    /\ pc = "add_a"
    /\ wait_a = 0
    /\ wait_b = 0
    /\ waited = 0
    /\ store = PyDict(<<>>)
    /\ reports = NoReports

NextTwoStops ==
    \/ /\ pc \in {"add_a", "add_b"}
       /\ add_task(TwoStopTasks[IF pc = "add_a" THEN 1 ELSE 2], Healthy)
       /\ pc' = (IF pc = "add_a" THEN "add_b" ELSE "run")
       /\ UNCHANGED <<wait_a, wait_b, waited, store, reports>>
    \/ \E i \in DOMAIN widgets :
          /\ pc = "run"
          /\ widgets[i].session_start = None
          /\ start_timer(i)
          /\ UNCHANGED scenario
    \/ /\ pc = "run"
       /\ now < MaxStopClock
       /\ clock_advance
       /\ UNCHANGED scenario
    \/ \E i \in DOMAIN widgets :
          /\ pc = "run"
          /\ \A j \in DOMAIN widgets : widgets[j].session_start # None
          /\ stop_timer(i, Healthy)
          /\ pc' = "second"
          /\ UNCHANGED <<wait_a, wait_b, waited, store, reports>>
    \/ \E i \in DOMAIN widgets :
          /\ pc = "second"
          /\ widgets[i].session_start # None
          /\ stop_timer(i, Healthy)
          /\ pc' = "run"
          /\ UNCHANGED <<wait_a, wait_b, waited, store, reports>>

SpecTwoStops == InitTwoStops /\ [][NextTwoStops]_vars

----------------------------------------------------------------------------
(* The navigation scenario: on a freshly added task, start, wait_a seconds *)
(* pass, stop, start, wait_b seconds pass; then, the second session still  *)
(* running, the user goes to the next day and comes back.                  *)

InitNavigation ==
    /\ InitCore
    /\ now \in 0..(TicksPerSecond - 1)
    /\ pc = "add"
    /\ wait_a \in 0..MaxWait
    /\ wait_b \in 0..MaxWait
    /\ waited = 0
    /\ store = PyDict(<<>>)
    /\ reports = NoReports

NextNavigation ==
    \/ /\ pc = "add"
       /\ add_task(ScenarioTask, Healthy)
       /\ pc' = "start_a"
       /\ UNCHANGED <<wait_a, wait_b, waited, store, reports>>
    \/ /\ pc \in {"start_a", "start_b"}
       /\ start_timer(1)
       /\ pc' = (IF pc = "start_a" THEN "wait_a" ELSE "wait_b")
       /\ waited' = 0
       /\ UNCHANGED <<wait_a, wait_b, store, reports>>
    \/ /\ pc \in {"wait_a", "wait_b"}
       /\ waited < WaitTicks
       /\ clock_advance
       /\ waited' = waited + 1
       /\ UNCHANGED <<pc, wait_a, wait_b, store, reports>>
    \/ /\ pc = "wait_a"
       /\ waited = WaitTicks
       /\ stop_timer(1, Healthy)
       /\ pc' = "start_b"
       /\ UNCHANGED <<wait_a, wait_b, waited, store, reports>>
    \/ /\ pc = "wait_b"
       /\ waited = WaitTicks
       /\ next_day(Healthy)
       /\ pc' = "away"
       /\ UNCHANGED <<wait_a, wait_b, waited, store, reports>>
    \/ /\ pc = "away"
       /\ prev_day(Healthy)
       /\ pc' = "back"
       /\ UNCHANGED <<wait_a, wait_b, waited, store, reports>>
    \/ /\ pc \in {"wait_a", "wait_b", "back"}
       /\ update_time_display(1)
       /\ UNCHANGED scenario
    \/ /\ pc # "add"
       /\ summary_tick
       /\ UNCHANGED scenario

SpecNavigation == InitNavigation /\ [][NextNavigation]_vars

----------------------------------------------------------------------------
(* The report specification: the program is launched on a readable Store   *)
(* drawn from a bounded set, then the summary screen, the charts screen    *)
(* and the CSV export are run in any order, any number of times.           *)

\* Two names whose case-insensitive order is not their code-point order
ReportNames == {<<"a">>, <<"B">>}

\* The task entries of a day: none, one task, or both tasks in either order
ReportTasks ==
    {<<>>}
    \cup {<<[k |-> n, v |-> TaskEntry(sec, <<>>)]>> : n \in ReportNames, sec \in 0..MaxSeconds}
    \cup {<<[k |-> p[1], v |-> TaskEntry(sec, <<>>)], [k |-> p[2], v |-> TaskEntry(other, <<>>)]>> :
             p \in {q \in ReportNames \X ReportNames : q[1] # q[2]},
             sec \in 0..MaxSeconds, other \in 0..MaxSeconds}

\* The day records: an optional note followed by the task entries, never empty
ReportDays ==
    {PyDict(note \o tasks) :
        note \in {<<>>, <<[k |-> NOTE_KEY, v |-> PyStr(<<"n">>)]>>},
        tasks \in ReportTasks} \ {PyDict(<<>>)}

\* The Stores: each of two dates absent or mapped to a day record, inserted
\* in either order, followed or not by a top-level value that is no day record
ReportStores ==
    {PyDict(first \o second \o other) :
        first \in {<<>>} \cup {<<[k |-> isoformat(d), v |-> day]>> :
                                  d \in 0..1, day \in ReportDays},
        second \in {<<>>} \cup {<<[k |-> isoformat(1), v |-> day]>> : day \in ReportDays}
                          \cup {<<[k |-> isoformat(0), v |-> day]>> : day \in ReportDays},
        other \in {<<>>, <<[k |-> isoformat(MaxDay + 1), v |-> PyStr(<<"x">>)]>>}}

\* No key twice
WellKeyed(data) ==
    \A i, j \in DOMAIN data.items : data.items[i].k = data.items[j].k => i = j

InitReports ==
    /\ now = 0
    /\ current_date = 0
    /\ widgets = <<>>
    /\ running_label = 0
    /\ total_label = format_seconds(0)
    /\ \E data \in ReportStores :
          /\ WellKeyed(data)
          /\ file = [exists |-> TRUE, text |-> json_dump(data)]
    /\ backups = {}
    /\ csv_file = NoCsv
    /\ logged = 0
    /\ signal = "none"
    /\ saved = FALSE
    /\ last_op = "launch"
    /\ pc = "free"
    /\ wait_a = 0
    /\ wait_b = 0
    /\ waited = 0
    /\ store = PyDict(<<>>)
    /\ reports = NoReports

NextReports ==
    \/ ~Built /\ build(Healthy) /\ UNCHANGED scenario
    \/ Built /\ build_summary_screen(Healthy) /\ UNCHANGED <<pc, wait_a, wait_b, waited, store>>
    \/ Built /\ build_charts_screen(Healthy) /\ UNCHANGED <<pc, wait_a, wait_b, waited, store>>
    \/ Built /\ export_csv_all(Healthy) /\ UNCHANGED scenario

SpecReports == InitReports /\ [][NextReports]_vars

----------------------------------------------------------------------------
(* Vocabulary of the properties *)

DateStrs == {isoformat(day) : day \in 0..MaxDay}
TaskNames == {strip(text) : text \in TaskNameInputs} \ {<<>>}

Running(w) == w.session_start # None

\* The seconds a time label shows
LabelSeconds(label) == label[1] * 3600 + label[2] * 60 + label[3]

\* floor(ticks / TicksPerSecond) for ticks >= 0
FloorSeconds(ticks) == ticks \div TicksPerSecond

\* Every listed widget keeps its cumulative seconds and its session start
TimersUnchanged ==
    /\ Len(widgets') = Len(widgets)
    /\ \A j \in DOMAIN widgets :
          /\ widgets'[j].total_seconds = widgets[j].total_seconds
          /\ widgets'[j].session_start = widgets[j].session_start

----------------------------------------------------------------------------
(* Properties *)

\* C1: the display-refresh tick (update_time_display) and the summary-refresh
\* tick (update_summary) are pure reads: a step of either performs no save and
\* changes neither the data file, nor any widget's cumulative seconds, nor any
\* session start, whether the widgets are Stopped or Running.
C1_TicksArePureReads ==
    [][last_op' \in {"update_time_display", "update_summary"}
          => /\ file' = file
             /\ ~saved'
             /\ TimersUnchanged]_vars

\* C1 witness: a display tick has fired on a widget that has been running for
\* at least a second, and its stored seconds are still the cumulative ones.
C1_Witness ==
    /\ last_op = "update_time_display"
    /\ \E i \in DOMAIN widgets :
          /\ Running(widgets[i])
          /\ elapsed(widgets[i], now) >= 1
          /\ LabelSeconds(widgets[i].time_label) = widgets[i].total_seconds + 1
          /\ HasEntry(file, widgets[i].date_str, widgets[i].task_name)
          /\ StoredSeconds(file, widgets[i].date_str, widgets[i].task_name)
                = widgets[i].total_seconds

\* C2: the stored seconds of a task entry that exists before and after a step
\* change value only in a step that stops a running session of that task; in
\* particular a description edit never changes them.
C2_SecondsChangeOnlyAtStop ==
    [][\A d \in DateStrs, n \in TaskNames :
          (/\ HasEntry(file, d, n)
           /\ HasEntry(file', d, n)
           /\ StoredSeconds(file', d, n) # StoredSeconds(file, d, n))
          => /\ last_op' = "stop_timer"
             /\ \E i \in DOMAIN widgets :
                   /\ widgets[i].date_str = d
                   /\ widgets[i].task_name = n
                   /\ Running(widgets[i])
                   /\ ~Running(widgets'[i])]_vars

\* C3: stop on a Running task (clock at or after the session start) adds the
\* whole seconds elapsed since the session start to the cumulative seconds,
\* clears the session start, and saves, so that the stored seconds of the
\* (date, task) entry equal the new cumulative value.
C3_StopCommitsElapsed ==
    [][\A i \in DOMAIN widgets :
          (/\ stop_timer(i, Healthy)
           /\ Running(widgets[i])
           /\ now >= widgets[i].session_start[1])
          => /\ widgets'[i].total_seconds
                  = widgets[i].total_seconds
                      + FloorSeconds(now - widgets[i].session_start[1])
             /\ ~Running(widgets'[i])
             /\ saved'
             /\ HasEntry(file', widgets[i].date_str, widgets[i].task_name)
             /\ StoredSeconds(file', widgets[i].date_str, widgets[i].task_name)
                  = widgets'[i].total_seconds]_vars

\* C3 witness: a stop has just committed at least one elapsed second, the
\* widget is Stopped and the stored seconds equal its cumulative seconds.
C3_Witness ==
    /\ last_op = "stop_timer"
    /\ saved
    /\ \E i \in DOMAIN widgets :
          /\ ~Running(widgets[i])
          /\ widgets[i].total_seconds >= 1
          /\ HasEntry(file, widgets[i].date_str, widgets[i].task_name)
          /\ StoredSeconds(file, widgets[i].date_str, widgets[i].task_name)
                = widgets[i].total_seconds

\* C4: in the two-session scenario (fresh task, start, wait_a seconds, stop,
\* start, wait_b seconds, stop) the cumulative seconds in memory and the
\* stored seconds both end equal to wait_a + wait_b.
C4_TwoSessionsAddUp ==
    pc = "done"
        => /\ Len(widgets) = 1
           /\ ~Running(widgets[1])
           /\ widgets[1].total_seconds = wait_a + wait_b
           /\ HasEntry(file, isoformat(current_date), ScenarioTask)
           /\ StoredSeconds(file, isoformat(current_date), ScenarioTask) = wait_a + wait_b

\* C4 witness: the scenario has ended with two sessions of different, positive
\* lengths.
C4_Witness ==
    /\ pc = "done"
    /\ wait_a = 1
    /\ wait_b = 2
    /\ widgets[1].total_seconds = 3

\* C5: the stored seconds of every task entry are never negative, and the
\* stored seconds of an entry that exists before and after a step never
\* decrease.
C5_SecondsNonNegativeNonDecreasing ==
    [][\A d \in DateStrs, n \in TaskNames :
          /\ HasEntry(file', d, n) => StoredSeconds(file', d, n) >= 0
          /\ (HasEntry(file, d, n) /\ HasEntry(file', d, n))
                => StoredSeconds(file', d, n) >= StoredSeconds(file, d, n)]_vars

\* C6: at most one listed session is Running for any (date, task name) pair.
C6_OneSessionPerTask ==
    \A i, j \in DOMAIN widgets :
        (/\ i # j
         /\ Running(widgets[i])
         /\ Running(widgets[j]))
        => \/ widgets[i].date_str # widgets[j].date_str
           \/ widgets[i].task_name # widgets[j].task_name

\* C7: a stop whose clock reading is earlier than the session start adds 0:
\* the cumulative seconds stay as they were and the stored seconds of the
\* entry do not decrease.
C7_RollbackAddsZero ==
    [][\A i \in DOMAIN widgets :
          (/\ stop_timer(i, Healthy)
           /\ Running(widgets[i])
           /\ now < widgets[i].session_start[1])
          => /\ widgets'[i].total_seconds = widgets[i].total_seconds
             /\ HasEntry(file, widgets[i].date_str, widgets[i].task_name)
                   => StoredSeconds(file', widgets[i].date_str, widgets[i].task_name)
                        >= StoredSeconds(file, widgets[i].date_str, widgets[i].task_name)]_vars

\* C8: start on a Running task and stop on a Stopped task are no-ops: the
\* widgets (the original session start and the cumulative seconds included)
\* and the data file are unchanged and no save is performed.
C8_InvalidOperationIsNoOp ==
    [][\A i \in DOMAIN widgets :
          (\/ start_timer(i) /\ Running(widgets[i])
           \/ stop_timer(i, Healthy) /\ ~Running(widgets[i]))
          => /\ widgets' = widgets
             /\ file' = file
             /\ ~saved'
             /\ UNCHANGED <<running_label, total_label>>]_vars

\* C8 witness: start has just been pressed on a task that was started at an
\* earlier clock reading, and the earlier session start is still in place.
C8_Witness ==
    /\ last_op = "start_timer_noop"
    /\ \E i \in DOMAIN widgets :
          /\ Running(widgets[i])
          /\ widgets[i].session_start[1] < now

\* C9: a Stopped task displays its cumulative seconds; a display read of a
\* Running task (clock at or after the session start) shows the cumulative
\* seconds plus the whole seconds elapsed since the session start, so a read
\* within the first second after start shows the cumulative seconds.
C9_DisplayedSeconds ==
    [][/\ \A i \in DOMAIN widgets' :
             ~Running(widgets'[i])
                => LabelSeconds(widgets'[i].time_label) = widgets'[i].total_seconds
       /\ \A i \in DOMAIN widgets :
             (/\ update_time_display(i)
              /\ Running(widgets[i])
              /\ now >= widgets[i].session_start[1])
             => /\ LabelSeconds(widgets'[i].time_label)
                     = widgets[i].total_seconds
                         + FloorSeconds(now - widgets[i].session_start[1])
                /\ now = widgets[i].session_start[1]
                     => LabelSeconds(widgets'[i].time_label) = widgets[i].total_seconds]_vars

\* C9 witness: a display read has just shown a running task one second above
\* its cumulative seconds.
C9_Witness ==
    /\ last_op = "update_time_display"
    /\ \E i \in DOMAIN widgets :
          /\ Running(widgets[i])
          /\ now - widgets[i].session_start[1] >= TicksPerSecond
          /\ LabelSeconds(widgets[i].time_label) > widgets[i].total_seconds

\* C10: deleting a task whose session is Running discards the session: the
\* widget leaves the list (one running session fewer), the (date, task) key is
\* gone from the data file after the step, and so no entry holding the elapsed
\* time is written.
C10_DeleteDiscardsRunningSession ==
    [][\A i \in DOMAIN widgets :
          (do_delete(i, Healthy) /\ Running(widgets[i]))
          => /\ widgets' = remove_widget(widgets, i)
             /\ summary_running(widgets') = summary_running(widgets) - 1
             /\ running_label' = summary_running(widgets')
             /\ ~delete_finds(file', widgets[i])]_vars

\* C10 witness: a running task has just been deleted, the delete saved, and
\* its date holds no task entry any more.
C10_Witness ==
    /\ last_op = "do_delete_running"
    /\ saved
    /\ \A n \in TaskNames : ~HasEntry(file, isoformat(current_date), n)

----------------------------------------------------------------------------
(* Properties of the store *)

\* The day record of date_str in data, empty when the date key is absent
DayRecord(data, date_str) == DictGetOr(data, date_str, PyDict(<<>>))

\* The task names of a day record: its keys other than the reserved one
TaskKeys(day) == {day.items[j].k : j \in DOMAIN day.items} \ {NOTE_KEY}

\* Every date key other than date_str is there, with the same record, before and after
OtherDatesUnchanged(data, after, date_str) ==
    /\ \A j \in DOMAIN data.items :
          data.items[j].k # date_str
             => /\ DictHas(after, data.items[j].k)
                /\ DictGet(after, data.items[j].k) = data.items[j].v
    /\ \A j \in DOMAIN after.items :
          after.items[j].k # date_str => DictHas(data, after.items[j].k)

\* Every key of the day record of date_str other than key is kept with its value
OtherKeysUnchanged(data, after, date_str, key) ==
    \A j \in DOMAIN DayRecord(data, date_str).items :
        LET e == DayRecord(data, date_str).items[j]
        IN  e.k # key
               => /\ DictHas(DayRecord(after, date_str), e.k)
                  /\ DictGet(DayRecord(after, date_str), e.k) = e.v

\* C11 as stated: a delete that finds the task's entry removes the date key when
\* the task was the only task of its date; otherwise it keeps the date key and
\* every other task entry; all other dates are unchanged.
C11_DeleteOnlyTaskRemovesDateKey ==
    [][\A i \in DOMAIN widgets :
          (do_delete(i, Healthy) /\ delete_finds(file, widgets[i]))
          => LET w == widgets[i]
                 data == safe_load_data(file)
                 after == safe_load_data(file')
             IN  /\ TaskKeys(DayRecord(data, w.date_str)) = {w.task_name}
                       => ~DictHas(after, w.date_str)
                 /\ TaskKeys(DayRecord(data, w.date_str)) # {w.task_name}
                       => /\ DictHas(after, w.date_str)
                          /\ OtherKeysUnchanged(data, after, w.date_str, w.task_name)
                 /\ OtherDatesUnchanged(data, after, w.date_str)]_vars

\* C11 amended: a delete that finds the task's entry removes that key; the date
\* key is removed exactly when the day record is left with no key at all (no
\* other task and no _note); otherwise the date key stays with every other key,
\* the note included, unchanged; all other dates are unchanged.
C11_DeleteRemovesDateKeyWhenEmpty ==
    [][\A i \in DOMAIN widgets :
          (do_delete(i, Healthy) /\ delete_finds(file, widgets[i]))
          => LET w == widgets[i]
                 data == safe_load_data(file)
                 after == safe_load_data(file')
                 others == {e.k : e \in {DayRecord(data, w.date_str).items[j] :
                                            j \in DOMAIN DayRecord(data, w.date_str).items}}
                              \ {w.task_name}
             IN  /\ ~DictHas(DayRecord(after, w.date_str), w.task_name)
                 /\ DictHas(after, w.date_str) <=> others # {}
                 /\ OtherKeysUnchanged(data, after, w.date_str, w.task_name)
                 /\ OtherDatesUnchanged(data, after, w.date_str)]_vars

\* C11 witness: a delete has just removed the only task of the current date; the
\* date key is still there, holding the note alone, and the other date still
\* holds a task entry.
C11_Witness ==
    /\ last_op = "do_delete"
    /\ saved
    /\ LET data == safe_load_data(file)
       IN  /\ DictHas(data, isoformat(current_date))
           /\ TaskKeys(DictGet(data, isoformat(current_date))) = {}
           /\ DictHas(DictGet(data, isoformat(current_date)), NOTE_KEY)
           /\ \E d \in DateStrs :
                 /\ d # isoformat(current_date)
                 /\ TaskKeys(DayRecord(data, d)) # {}

\* C12: no date key of the stored data maps to an empty day record.
C12_NoEmptyDayRecord ==
    \A j \in DOMAIN safe_load_data(file).items :
        safe_load_data(file).items[j].v.items # <<>>

\* C12 witness: a delete has just removed the last key of the current date and
\* the date key went with it, while the file is still there.
C12_Witness ==
    /\ last_op = "do_delete"
    /\ saved
    /\ Readable(file)
    /\ ~DictHas(safe_load_data(file), isoformat(current_date))

\* C13: add_task with a blank name changes nothing; with a name not stored on
\* the current date it adds exactly one key, an entry of 0 seconds and empty
\* description, and leaves every other key and date as they were; with a name
\* already stored it leaves the file unchanged.  The day record never holds a
\* name twice.
C13_AddTaskCreatesOnce ==
    [][\A text \in StoreNameInputs :
          add_task(text, Healthy)
          => LET name == strip(text)
                 d == isoformat(current_date)
                 data == safe_load_data(file)
                 after == safe_load_data(file')
             IN  /\ name = <<>> => file' = file /\ widgets' = widgets /\ ~saved'
                 /\ (name # <<>> /\ ~DictHas(DayRecord(data, d), name))
                       => /\ HasEntry(file', d, name)
                          /\ DictGet(DictGet(after, d), name) = TaskEntry(0, <<>>)
                          /\ count_keys(after.items) = count_keys(data.items) + 1
                          /\ OtherKeysUnchanged(data, after, d, name)
                          /\ OtherDatesUnchanged(data, after, d)
                 /\ (name # <<>> /\ DictHas(DayRecord(data, d), name))
                       => file' = file /\ ~saved'
                 /\ \A n \in TaskKeys(DayRecord(after, d)) :
                       Cardinality({j \in DOMAIN DayRecord(after, d).items :
                                       DayRecord(after, d).items[j].k = n}) = 1]_vars

\* C13 witness: add_task has just been given a name already stored on the
\* current date; nothing was saved and the stored entry keeps its description.
C13_Witness ==
    /\ last_op = "add_task"
    /\ ~saved
    /\ \E n \in TaskKeys(DayRecord(safe_load_data(file), isoformat(current_date))) :
          /\ StoredDescription(file, isoformat(current_date), n) = <<"d">>
          /\ Len(widgets) >= 1
          /\ widgets[Len(widgets)].task_name = n
          /\ widgets[Len(widgets)].description = <<>>

\* C14: in every day record of the stored data the reserved _note key, when
\* present, holds a text string.
C14_NoteKeyHoldsText ==
    \A j \in DOMAIN safe_load_data(file).items :
        LET day == safe_load_data(file).items[j].v
        IN  DictHas(day, NOTE_KEY) => DictGet(day, NOTE_KEY).t = "str"

----------------------------------------------------------------------------
(* Properties of loading and saving under faults *)

\* The handlers that only load: TaskApp.build and open_notepad_screen
OnlyLoads(io) == build(io) \/ open_notepad_screen(io)

\* The store holding the one entry (date_str, task_name) and nothing else
OneEntryStore(date_str, task_name, seconds, description) ==
    set_in_day(with_day(PyDict(<<>>), date_str), date_str, task_name,
               TaskEntry(seconds, description))

\* C15: a load raises nothing to its caller (no error popup).  With the data
\* file absent it returns the empty store and touches nothing.  With a data
\* file that is not a JSON object (a scalar, an array, text that does not
\* parse) it returns the empty store, appends one entry to error.log and,
\* os.rename permitting, moves the file to the backup named by the clock's
\* second, with its text.
C15_LoadRecoversFromBadFile ==
    [][\A r \in BOOLEAN :
          OnlyLoads(IO("ok", r, "ok"))
          => /\ signal' = "none"
             /\ ~file.exists
                   => /\ safe_load_data(file) = PyDict(<<>>)
                      /\ last_op' = "load_tasks_for_date" => widgets' = <<>>
                      /\ logged' = 0
                      /\ UNCHANGED <<file, backups>>
             /\ Unreadable(file)
                   => /\ safe_load_data(file) = PyDict(<<>>)
                      /\ last_op' = "load_tasks_for_date" => widgets' = <<>>
                      /\ logged' = 1
                      /\ r => /\ ~file'.exists
                              /\ [stamp |-> timestamp(now), text |-> file.text] \in backups']_vars

\* C15 witness: the program has just been built on a data file holding a JSON
\* scalar: nothing is listed, the data file is gone and a backup holds the scalar.
C15_Witness ==
    /\ last_op = "load_tasks_for_date"
    /\ logged = 1
    /\ widgets = <<>>
    /\ ~file.exists
    /\ \E b \in backups : b.text.type = "string"

\* C16: the text of an unreadable data file is never lost: a step that finds
\* the data file unreadable and leaves a different data file (or none) leaves
\* a backup holding the text, and no step removes or rewrites a backup.
C16_UnreadableContentIsKept ==
    [][/\ (Unreadable(file) /\ file' # file)
             => \E b \in backups' : b.text = file.text
       /\ \A b \in backups : b \in backups']_vars

\* C17: a handler that finds the data file unreadable and whose write succeeds
\* leaves a readable data file holding exactly the store it saved (the empty
\* store of the fallback plus the handler's own entry); a later load of it
\* takes no recovery step.
C17_SaveRebuildsTheFile ==
    [][/\ \A text \in FaultNameInputs, r \in BOOLEAN :
             (add_task(text, IO("ok", r, "ok")) /\ Unreadable(file))
             => /\ Readable(file')
                /\ load_logged(file') = 0
                /\ safe_load_data(file')
                     = OneEntryStore(isoformat(current_date), strip(text), 0, <<>>)
       /\ \A i \in DOMAIN widgets, r \in BOOLEAN :
             (stop_timer(i, IO("ok", r, "ok")) /\ Running(widgets[i]) /\ Unreadable(file))
             => /\ Readable(file')
                /\ load_logged(file') = 0
                /\ safe_load_data(file')
                     = OneEntryStore(widgets[i].date_str, widgets[i].task_name,
                                     widgets'[i].total_seconds, widgets[i].description)]_vars

\* C17 witness: add_task has just found the data file unreadable (one entry in
\* error.log), saved, and left a readable data file with the new entry.
C17_Witness ==
    /\ last_op = "add_task"
    /\ saved
    /\ logged = 1
    /\ Readable(file)
    /\ \E n \in TaskNames : HasEntry(file, isoformat(current_date), n)

\* C18: a stop of a running session whose write of the data file fails still
\* stops the session and adds the elapsed seconds in memory, logs the failure,
\* opens no error popup, and leaves the data file as it was.
C18_FailedWriteAtStop ==
    [][\A i \in DOMAIN widgets :
       \A w \in WriteOutcomes \ {"ok"}, r \in BOOLEAN :
          (/\ stop_timer(i, IO(w, r, "ok"))
           /\ Running(widgets[i])
           /\ ~Unreadable(file))
          => /\ ~Running(widgets'[i])
             /\ widgets'[i].total_seconds
                  = widgets[i].total_seconds + elapsed(widgets[i], now)
             /\ logged' >= 1
             /\ signal' = "none"
             /\ file' = file]_vars

\* C19: a delete whose write of the data file fails, and an export whose write
\* of the CSV file fails, are logged and reported to the user by the error popup.
C19_FailedDeleteOrExportIsReported ==
    [][/\ \A i \in DOMAIN widgets :
          \A w \in WriteOutcomes \ {"ok"}, r \in BOOLEAN :
             (do_delete(i, IO(w, r, "ok")) /\ delete_finds(file, widgets[i]))
             => logged' >= 1 /\ signal' = "error"
       /\ \A c \in WriteOutcomes \ {"ok"}, r \in BOOLEAN :
             export_csv_all(IO("ok", r, c))
             => logged' >= 1 /\ signal' = "error"]_vars

\* C20: in the round trip, the load after the save returns a Store equal to
\* the one saved, and saving the Store just loaded leaves the text of the data
\* file unchanged.
C20_SaveLoadRoundTrip ==
    [][/\ pc = "load" => store' = store
       /\ pc = "save_again" => file' = file]_vars

\* C20 witness: the round trip has ended on a Store of two dates whose note
\* holds a backslash, written to the file with the backslash doubled.
C20_Witness ==
    /\ pc = "done"
    /\ Len(store.items) = 2
    /\ DictHas(store.items[1].v, NOTE_KEY)
    /\ DictGet(store.items[1].v, NOTE_KEY).s = <<"\\", "n">>
    /\ \E j \in DOMAIN file.text.members[1].value.members :
          file.text.members[1].value.members[j].value.str = <<"\\", "\\", "n">>

----------------------------------------------------------------------------
(* Properties of two tasks stopped together *)

\* The widget other than widget i in the two-task scenario
OtherWidget(i) == 3 - i

\* C21: when two different running tasks are stopped one right after the
\* other in the same clock tick, in either order, each stop adds the whole
\* seconds of its own session to the stored seconds of its own task and
\* leaves the stored seconds of the other task as they were, so that after
\* the second stop the Store holds the updated seconds of both.
C21_BothStopsReachTheStore ==
    [][\A i \in DOMAIN widgets :
          (/\ pc \in {"run", "second"}
           /\ Len(widgets) = 2
           /\ Running(widgets[i])
           /\ stop_timer(i, Healthy))
          => LET w == widgets[i]
                 o == widgets[OtherWidget(i)]
             IN  /\ HasEntry(file', w.date_str, w.task_name)
                 /\ StoredSeconds(file', w.date_str, w.task_name)
                      = StoredSeconds(file, w.date_str, w.task_name)
                          + FloorSeconds(now - w.session_start[1])
                 /\ HasEntry(file', o.date_str, o.task_name)
                 /\ StoredSeconds(file', o.date_str, o.task_name)
                      = StoredSeconds(file, o.date_str, o.task_name)
                 /\ pc = "second"
                      => StoredSeconds(file', o.date_str, o.task_name) = o.total_seconds]_vars

\* C21 witness: the second of two stops in one tick has just been made; the
\* two sessions were of different lengths and both are in the Store.
C21_Witness ==
    /\ pc = "run"
    /\ last_op = "stop_timer"
    /\ Len(widgets) = 2
    /\ \A i \in DOMAIN widgets : ~Running(widgets[i])
    /\ StoredSeconds(file, isoformat(0), <<"a">>) = 2
    /\ StoredSeconds(file, isoformat(0), <<"b">>) = 1

----------------------------------------------------------------------------
(* Properties of the reports *)

\* The Store on disk
StoredData == safe_load_data(file)

\* The date strings a Store of the report specification may have as keys
ReportDates == {isoformat(day) : day \in -1..(MaxDay + 1)}

\* date_str is a key of data and its value is a day record
IsDayRecord(data, date_str) ==
    DictHas(data, date_str) /\ DictGet(data, date_str).t = "dict"

\* The day record of date_str has an entry for name
RecordedOn(data, date_str, name) ==
    IsDayRecord(data, date_str) /\ DictHas(DictGet(data, date_str), name)

\* The stored seconds of (date_str, name), 0 where there is no such entry
SecondsOn(data, date_str, name) ==
    IF RecordedOn(data, date_str, name)
    THEN DictGetOr(DictGet(DictGet(data, date_str), name), SECONDS_KEY, PyInt(0)).n
    ELSE 0

\* The task names with an entry in some day record
RecordedNames(data) ==
    {name \in ReportNames : \E d \in ReportDates : RecordedOn(data, d, name)}

\* The sum of the stored seconds of name over the dates from day on
RECURSIVE TotalFrom(_, _, _)
TotalFrom(data, name, day) ==
    IF day > MaxDay + 1 THEN 0
    ELSE SecondsOn(data, isoformat(day), name) + TotalFrom(data, name, day + 1)

TotalSeconds(data, name) == TotalFrom(data, name, -1)

\* The dates on which name has more than 0 stored seconds
PositiveDates(data, name) == {d \in ReportDates : SecondsOn(data, d, name) > 0}

\* C22: the cross-date aggregation has, for every task name with an entry in
\* some day record (the "_note" key excluded, top-level values that are not
\* day records skipped), total_seconds equal to the sum of its stored seconds
\* over all dates, and a per_day map holding exactly the dates on which it
\* has more than 0 seconds, each with that day's seconds; a task with only
\* zero-second entries has total 0 and an empty per_day.
C22_CrossDateAggregation ==
    last_op = "build_summary_screen"
    => LET data == StoredData
           cards == reports.summary
       IN  /\ {cards[i].tname : i \in DOMAIN cards} = RecordedNames(data)
           /\ Len(cards) = Cardinality(RecordedNames(data))
           /\ \A i \in DOMAIN cards :
                 LET name == cards[i].tname
                     rows == cards[i].rows
                 IN  /\ cards[i].total = TotalSeconds(data, name)
                     /\ {rows[j].date : j \in DOMAIN rows} = PositiveDates(data, name)
                     /\ Len(rows) = Cardinality(PositiveDates(data, name))
                     /\ cards[i].days_count = Cardinality(PositiveDates(data, name))
                     /\ \A j \in DOMAIN rows :
                           rows[j].sec = SecondsOn(data, rows[j].date, name)

\* C22 witness: the summary was built from a Store with a top-level value
\* that is no day record; one task has seconds on two dates, another has
\* only a zero-second entry.
C22_Witness ==
    /\ last_op = "build_summary_screen"
    /\ \E d \in ReportDates : DictHas(StoredData, d) /\ ~IsDayRecord(StoredData, d)
    /\ \E i \in DOMAIN reports.summary :
          reports.summary[i].total = 2 /\ Len(reports.summary[i].rows) = 2
    /\ \E i \in DOMAIN reports.summary :
          /\ reports.summary[i].total = 0
          /\ reports.summary[i].rows = <<>>
          /\ \E d \in ReportDates : RecordedOn(StoredData, d, reports.summary[i].tname)

\* The task name of a CSV data row: the text between its first two quotes
csv_task_name(line) ==
    LET close == CHOOSE k \in 2..Len(line) :
                     line[k] = "\"" /\ \A m \in 2..(k - 1) : line[m] # "\""
    IN  SubSeq(line, 2, close - 1)

\* C23: the data rows of the CSV follow the header in case-insensitive
\* ascending order of task name, whatever the order of the Store.
C23_CsvRowsSortedByName ==
    (last_op = "export_csv_all" /\ csv_file.exists)
    => \A i, j \in 2..Len(csv_file.lines) :
          i < j => ~str_less(lower(csv_task_name(csv_file.lines[j])),
                             lower(csv_task_name(csv_file.lines[i])))

\* The breakdown field a row for name should have: the date:seconds pairs of
\* the dates with more than 0 seconds, ascending from day on, ";" between them
RECURSIVE ExpectedBreakdown(_, _, _)
ExpectedBreakdown(data, name, day) ==
    IF day > MaxDay + 1 THEN <<>>
    ELSE LET rest == ExpectedBreakdown(data, name, day + 1)
             sec == SecondsOn(data, isoformat(day), name)
         IN  IF sec > 0
             THEN isoformat(day) \o <<":", ToString(sec)>>
                    \o (IF rest = <<>> THEN <<>> ELSE <<";">> \o rest)
             ELSE rest

\* The row a task should have
ExpectedRow(data, name) ==
    <<"\"">> \o name
        \o <<"\"", ",", ToString(TotalSeconds(data, name)), ",",
             ToString(Cardinality(PositiveDates(data, name))), ",", "\"">>
        \o ExpectedBreakdown(data, name, -1) \o <<"\"">>

\* C24: the CSV is the header followed by exactly one row per aggregated
\* task: the quoted name, total_seconds, days_count equal to the number of
\* per_day entries, and the quoted breakdown listing every per_day
\* date:seconds pair once in ascending date order (empty when there is none).
C24_CsvOneRowPerTask ==
    (last_op = "export_csv_all" /\ csv_file.exists)
    => LET data == StoredData
           lines == csv_file.lines
       IN  /\ lines[1] = CSV_HEADER
           /\ Len(lines) = 1 + Cardinality(RecordedNames(data))
           /\ \A name \in RecordedNames(data) :
                 \E i \in 2..Len(lines) : lines[i] = ExpectedRow(data, name)

\* C24 witness: the Store was written with the later date first; the CSV has
\* a row with both dates in ascending order and a row with an empty breakdown.
C24_Witness ==
    /\ last_op = "export_csv_all"
    /\ csv_file.exists
    /\ Len(StoredData.items) >= 2
    /\ StoredData.items[1].k = isoformat(1)
    /\ StoredData.items[2].k = isoformat(0)
    /\ \E i \in 2..Len(csv_file.lines) :
          csv_file.lines[i]
            = <<"\"", "a", "\"", ",", "2", ",", "2", ",", "\"">>
                \o isoformat(0) \o <<":", "1", ";">> \o isoformat(1) \o <<":", "1", "\"">>
    /\ \E i \in 2..Len(csv_file.lines) :
          csv_file.lines[i] = <<"\"", "B", "\"", ",", "0", ",", "0", ",", "\"", "\"">>

\* The keys of the Store
StoreKeys(data) == {data.items[i].k : i \in DOMAIN data.items}

\* The sum of the stored seconds of the tasks of one date
DateTotal(data, date_str) ==
    SecondsOn(data, date_str, <<"a">>) + SecondsOn(data, date_str, <<"B">>)

\* C25: the daily hours series has one point per date key in the Store, in
\* ascending date order, whose value is the sum of that date's non-"_note"
\* seconds in hours; dates with a zero total and dates holding only a note
\* are included.
C25_HoursSeries ==
    last_op = "build_charts_screen"
    => LET data == StoredData
           line == reports.line
       IN  /\ {line[i].date : i \in DOMAIN line} = StoreKeys(data)
           /\ Len(line) = Cardinality(StoreKeys(data))
           /\ \A i, j \in DOMAIN line : i < j => day_of(line[i].date) < day_of(line[j].date)
           /\ \A i \in DOMAIN line :
                 /\ line[i].hours.num = DateTotal(data, line[i].date)
                 /\ line[i].hours.den = 3600

\* The entries of a day record other than the note, in insertion order
TaskEntries(day) == SelectSeq(day.items, LAMBDA e : e.k # NOTE_KEY)

\* The dates of the Store with at least one entry other than the note
DatesWithTasks(data) ==
    {d \in ReportDates : IsDayRecord(data, d) /\ TaskEntries(DictGet(data, d)) # <<>>}

\* C26: the distribution given to a pie the charts screen draws holds every non-"_note"
\* entry of that date, in insertion order, with its seconds; only when every
\* entry has zero seconds is each task given the uniform weight 1 instead.
C26_PieDistribution ==
    last_op = "build_charts_screen"
    => LET data == StoredData
           pies == reports.pies
       IN  /\ {pies[i].date : i \in DOMAIN pies} \subseteq DatesWithTasks(data)
           /\ \A i \in DOMAIN pies :
                 LET entries == TaskEntries(DictGet(data, pies[i].date))
                     all_zero == \A j \in DOMAIN entries :
                                    SecondsOn(data, pies[i].date, entries[j].k) = 0
                 IN  /\ pies[i].tasks
                          = [j \in DOMAIN entries |->
                                [tname |-> entries[j].k,
                                 sec |-> SecondsOn(data, pies[i].date, entries[j].k)]]
                     /\ Len(pies[i].slices) = Len(entries)
                     /\ \A j \in DOMAIN pies[i].slices :
                           /\ pies[i].slices[j].label = entries[j].k
                           /\ pies[i].slices[j].size
                                = (IF all_zero THEN 1
                                   ELSE SecondsOn(data, pies[i].date, entries[j].k))

\* C26 as amended: for every pie the charts screen draws, generate_pie_chart
\* is handed every non-"_note" entry of the pie's date, in insertion order,
\* with its seconds; the pie it draws has one slice per entry with more than 0 seconds, in that order and of that size,
\* the other entries being left out; only when no entry has more than 0
\* seconds does it have one slice of weight 1 per entry.
C26_PieDrawsPositiveEntries ==
    last_op = "build_charts_screen"
    => LET data == StoredData
           pies == reports.pies
       IN  /\ {pies[i].date : i \in DOMAIN pies} \subseteq DatesWithTasks(data)
           /\ \A i \in DOMAIN pies :
                 LET entries == TaskEntries(DictGet(data, pies[i].date))
                     positive == SelectSeq(entries, LAMBDA e :
                                    SecondsOn(data, pies[i].date, e.k) > 0)
                     drawn == IF positive = <<>> THEN entries ELSE positive
                 IN  /\ pies[i].tasks
                          = [j \in DOMAIN entries |->
                                [tname |-> entries[j].k,
                                 sec |-> SecondsOn(data, pies[i].date, entries[j].k)]]
                     /\ Len(pies[i].slices) = Len(drawn)
                     /\ \A j \in DOMAIN pies[i].slices :
                           /\ pies[i].slices[j].label = drawn[j].k
                           /\ pies[i].slices[j].size
                                = (IF positive = <<>> THEN 1
                                   ELSE SecondsOn(data, pies[i].date, drawn[j].k))

\* C26 witness: one pie of a date with a zero-second task and a one-second
\* task, drawn with the one-second task alone; another of a date whose two
\* tasks both have zero seconds, drawn with weight 1 each.
C26_Witness ==
    /\ last_op = "build_charts_screen"
    /\ signal = "none"
    /\ \E i \in DOMAIN reports.pies :
          /\ reports.pies[i].tasks
               = <<[tname |-> <<"a">>, sec |-> 0], [tname |-> <<"B">>, sec |-> 1]>>
          /\ reports.pies[i].slices = <<[label |-> <<"B">>, size |-> 1]>>
    /\ \E i \in DOMAIN reports.pies :
          /\ reports.pies[i].tasks
               = <<[tname |-> <<"B">>, sec |-> 0], [tname |-> <<"a">>, sec |-> 0]>>
          /\ reports.pies[i].slices
               = <<[label |-> <<"B">>, size |-> 1], [label |-> <<"a">>, size |-> 1]>>

\* A report handler has just run
ReportStep ==
    \/ build_summary_screen(Healthy)
    \/ build_charts_screen(Healthy)
    \/ export_csv_all(Healthy)

\* The second field of a CSV data row: the token after the comma that
\* follows the closing quote of the name
csv_total(line) == line[Len(csv_task_name(line)) + 4]

\* C27: building the summary, building the chart data (the uniform-weight
\* fallback included) and exporting the CSV leave a readable Store as it is
\* on disk, and the totals of the summary and of the CSV are the stored
\* seconds: a fallback weight never shows in them.
C27_ReportsOnlyRead ==
    [][(ReportStep /\ Readable(file))
          => /\ file' = file
             /\ backups' = backups
             /\ \A i \in DOMAIN reports'.summary :
                   reports'.summary[i].total
                     = TotalSeconds(StoredData, reports'.summary[i].tname)
             /\ csv_file'.exists
                   => \A i \in 2..Len(csv_file'.lines) :
                         csv_total(csv_file'.lines[i])
                           = ToString(TotalSeconds(StoredData,
                                                   csv_task_name(csv_file'.lines[i])))]_vars

\* C27 witness: a pie was drawn with the fallback weight 1 for a task whose
\* stored seconds are 0; the summary and the CSV, both built, show the task
\* with total 0, and the Store still holds 0 for it.
C27_Witness ==
    /\ \E i \in DOMAIN reports.pies :
          /\ reports.pies[i].tasks = <<[tname |-> <<"a">>, sec |-> 0]>>
          /\ reports.pies[i].slices = <<[label |-> <<"a">>, size |-> 1]>>
    /\ \E i \in DOMAIN reports.summary :
          reports.summary[i].tname = <<"a">> /\ reports.summary[i].total = 0
    /\ csv_file.exists
    /\ \E i \in 2..Len(csv_file.lines) :
          csv_task_name(csv_file.lines[i]) = <<"a">> /\ csv_total(csv_file.lines[i]) = "0"
    /\ TotalSeconds(StoredData, <<"a">>) = 0
    /\ \E d \in ReportDates : RecordedOn(StoredData, d, <<"a">>)

----------------------------------------------------------------------------
(* Properties of day navigation and of the task list *)

\* C28: a change of the current date (previous or next day) leaves the data
\* file as it is and lists only Stopped tasks, each displaying its stored
\* seconds; after the date was changed and changed back, the task shows and
\* stores the seconds of its committed session alone: the time elapsed in the
\* session that was running at the date change is never added to the Store.
C28_NavigationDiscardsRunningSession ==
    [][(prev_day(Healthy) \/ next_day(Healthy))
          => /\ file' = file
             /\ \A i \in DOMAIN widgets' :
                   /\ ~Running(widgets'[i])
                   /\ widgets'[i].date_str = isoformat(current_date')
                   /\ HasEntry(file', widgets'[i].date_str, widgets'[i].task_name)
                   /\ widgets'[i].total_seconds
                        = StoredSeconds(file', widgets'[i].date_str, widgets'[i].task_name)
                   /\ LabelSeconds(widgets'[i].time_label) = widgets'[i].total_seconds
             /\ pc = "away"
                   => /\ Len(widgets') = 1
                      /\ widgets'[1].task_name = ScenarioTask
                      /\ widgets'[1].total_seconds = wait_a]_vars

\* C28 witness: the user is back on the day of the task; the first session
\* of one second was committed, the second had run for two seconds when the
\* date was changed; the task is listed Stopped with one second, as stored.
C28_Witness ==
    /\ pc = "back"
    /\ last_op = "load_tasks_for_date"
    /\ wait_a = 1
    /\ wait_b = 2
    /\ Len(widgets) = 1
    /\ ~Running(widgets[1])
    /\ widgets[1].total_seconds = 1
    /\ StoredSeconds(file, isoformat(0), ScenarioTask) = 1

\* C29: whenever a listed task is Stopped (every save so far having
\* succeeded on a readable file), its cumulative seconds in memory equal the
\* stored seconds of its (date, task) entry.
C29_StoppedMatchesStore ==
    \A i \in DOMAIN widgets :
       (/\ ~Running(widgets[i])
        /\ HasEntry(file, widgets[i].date_str, widgets[i].task_name))
       => widgets[i].total_seconds
            = StoredSeconds(file, widgets[i].date_str, widgets[i].task_name)

\* The note of a date as stored: the value under the "_note" key, if any
StoredNote(f, date_str) ==
    LET day == DayRecord(safe_load_data(f), date_str)
    IN  IF DictHas(day, NOTE_KEY) THEN <<DictGet(day, NOTE_KEY)>> ELSE <<>>

\* C30: a stop or a description edit on one (date, task) changes no other
\* task's entry on that date, no other date's record and no "_note"; setting
\* the note of a date changes nothing but that date's "_note".
C30_WritesTouchOnlyTheirKey ==
    [][/\ \A i \in DOMAIN widgets :
             (\/ stop_timer(i, Healthy)
              \/ \E text \in StoreDescriptionInputs : do_save(i, text, Healthy))
             => LET data == safe_load_data(file)
                    after == safe_load_data(file')
                IN  /\ OtherDatesUnchanged(data, after, widgets[i].date_str)
                    /\ OtherKeysUnchanged(data, after, widgets[i].date_str,
                                          widgets[i].task_name)
                    /\ \A d \in DateStrs : StoredNote(file', d) = StoredNote(file, d)
       /\ (\E text \in StoreNoteInputs : save_notepad_for_current_date(text, Healthy))
             => LET data == safe_load_data(file)
                    after == safe_load_data(file')
                IN  /\ OtherDatesUnchanged(data, after, isoformat(current_date))
                    /\ OtherKeysUnchanged(data, after, isoformat(current_date), NOTE_KEY)]_vars

====
